---------------------------- MODULE Spec2Model ----------------------------
(***************************************************************************)
(* A state-machine model of graphdrs: the graph embedding and interaction  *)
(* engine (src/src/graph_interface.rs), its callers in the frame loop      *)
(* (src/src/main.rs) and the control panel (src/src/ui_manager.rs).        *)
(*                                                                         *)
(* Conventions.                                                            *)
(*   Option<T>   None is <<>>, Some(x) is <<x>>.                           *)
(*   Vec2        <<x, y>> with integer coordinates (the f32 arithmetic of  *)
(*               the program is modelled on the integers it agrees with).  *)
(*   Vec<T>      a sequence; Rust index i is sequence index i + 1.         *)
(*   usize       a natural number; wrapping arithmetic is taken modulo     *)
(*               UsizeModulus.                                             *)
(***************************************************************************)
EXTENDS Integers, Sequences, FiniteSets, TLC

VARIABLES
    \* GraphInterface (graph_interface.rs:78-88)
    vertex_properties,          \* Vec<VertexProperties>
    edge_properties,            \* Vec<EdgeProperties>
    dragged_vertex,             \* Option<usize>
    hovered_vertex,             \* Option<usize>
    hovered_edge,               \* Option<usize>
    drag_state,                 \* Option<DragState>
    click_start,                \* ClickHandler.click_start: Option<(Instant, Vec2)>
    registered_click_this_frame,\* ClickHandler.registered_click_this_frame
    highlight_graph_history,    \* Vec<Graph>
    current_highlight_graph,    \* Option<usize>
    \* Content (main.rs:17-22) and the environment
    graph,                      \* Content.graph
    now,                        \* the monotonic clock read by Instant::now()
    overflow_checks,            \* the build profile: TRUE for a build with overflow checks (dev)
    panicked,                   \* the process has aborted through a panic
    \* SVGWriter (svg_writer.rs:18-24)
    writer,                     \* the writer of an export in progress
    \* observers (not program state)
    last_op,                    \* the operation executed last, and the branch it took
    next_calls,                 \* set_next_highlighting calls since the cursor was unset, -1: not counting
    recorded_calls,             \* highlight-and-record calls that built the history, -1: built otherwise
    overwritten,                \* the edge draw states the last operation replaced wholesale
    parse_call,                 \* the last parse_graph6_string call: its input and its result
    writer_result               \* the result of the last SVGWriter operation

vars == <<vertex_properties, edge_properties, dragged_vertex, hovered_vertex,
          hovered_edge, drag_state, click_start, registered_click_this_frame,
          highlight_graph_history, current_highlight_graph, graph, now,
          overflow_checks, panicked, last_op, next_calls, recorded_calls,
          overwritten, writer, parse_call, writer_result>>

\* the exporter and the observers of the decoder and the exporter
export_vars == <<writer, parse_call, writer_result>>

interface_vars == <<vertex_properties, edge_properties, dragged_vertex,
                    hovered_vertex, hovered_edge, drag_state, click_start,
                    registered_click_this_frame, highlight_graph_history,
                    current_highlight_graph>>

pointer_vars == <<dragged_vertex, hovered_vertex, hovered_edge, drag_state,
                  click_start, registered_click_this_frame, now>>

history_vars == <<highlight_graph_history, current_highlight_graph>>

-----------------------------------------------------------------------------
(* Options, integers, vectors *)

None == <<>>

Some(x) == <<x>>

IsSome(o) == o # None

Unwrap(o) == o[1]

\* usize is 64 bits wide; TLC's integers are 32 bits wide, so the model keeps
\* 30 bits.  Every index of the model is far below the modulus, so that a
\* wrapped value compares with a length as the 64-bit one does.
UsizeModulus == 2^30

\* index - 1 and len - 1 in a build without overflow checks
WrappingSub(a, b) == (a - b + UsizeModulus) % UsizeModulus

Min(a, b) == IF a <= b THEN a ELSE b

Max(a, b) == IF a >= b THEN a ELSE b

ZERO == <<0, 0>>

VAdd(p, q) == <<p[1] + q[1], p[2] + q[2]>>

VSub(p, q) == <<p[1] - q[1], p[2] - q[2]>>

\* the square of Vec2::distance
DistanceSq(p, q) == (p[1] - q[1]) * (p[1] - q[1]) + (p[2] - q[2]) * (p[2] - q[2])

\* Vec2::clamp, componentwise
Clamp(p, lo, hi) == <<Min(Max(p[1], lo[1]), hi[1]), Min(Max(p[2], lo[2]), hi[2])>>

Contains(seq, x) == \E i \in 1..Len(seq) : seq[i] = x

-----------------------------------------------------------------------------
(* Program constants *)

ScreenWidth == 460

ScreenHeight == 160

UI_WIDTH == 300

main_screen_width == ScreenWidth - UI_WIDTH

screen_height == ScreenHeight

CircleMargin == 50

VertexMainSize == 12

VertexBorderSize == 5

EdgeWidth == 5

DragMinDuration == 125

DragMinDistance == 5

\* Bounds of the model

\* the highlight history holds at most this many entries
MaxHistory == 2

\* a press is followed for at most this long (the clock, in milliseconds)
MaxClock == 126

\* the time between two frames under Spec, in milliseconds
HistoryFrameStep == 100

DrawStates == {"Default", "Highlighted", "Unhighlighted", "Hidden"}

-----------------------------------------------------------------------------
(* Graph (graph.rs) *)

Graph(n, edges) == [vertices |-> n, edges |-> edges]

\* Content::new: the graph the program starts with
ContentNewGraph == Graph(4, << <<0, 1>>, <<1, 2>>, <<2, 3>>, <<0, 3>>, <<1, 3>> >>)

-----------------------------------------------------------------------------
(* VertexProperties, EdgeProperties *)

\* mutant of cycle_drawstate: the cycle runs the other way
cycle_drawstate_backwards(ds) ==
    CASE ds = "Default" -> "Hidden"
      [] ds = "Highlighted" -> "Default"
      [] ds = "Unhighlighted" -> "Highlighted"
      [] ds = "Hidden" -> "Unhighlighted"

\* mutant of cycle_drawstate: Hidden is left out of the cycle
cycle_drawstate_skips_hidden(ds) ==
    CASE ds = "Default" -> "Highlighted"
      [] ds = "Highlighted" -> "Unhighlighted"
      [] ds = "Unhighlighted" -> "Default"
      [] ds = "Hidden" -> "Default"

cycle_drawstate(ds) ==
    CASE ds = "Default" -> "Highlighted"
      [] ds = "Highlighted" -> "Unhighlighted"
      [] ds = "Unhighlighted" -> "Hidden"
      [] ds = "Hidden" -> "Default"

DefaultVertexProperties ==
    [position |-> ZERO,
     radius |-> VertexMainSize + VertexBorderSize,
     draw_state |-> "Default"]

DefaultEdgeProperties ==
    [vertices |-> <<0, 0>>, width |-> EdgeWidth, draw_state |-> "Default"]

\* sin and cos of i * TAU / n, exact for the vertex counts whose circle
\* points have integer coordinates (n dividing 4)
QuarterTurns(i, n) == (i * (4 \div n)) % 4

SinQ(i, n) == <<0, 1, 0, -1>>[QuarterTurns(i, n) + 1]

CosQ(i, n) == <<1, 0, -1, 0>>[QuarterTurns(i, n) + 1]

\* GraphInterface::new, the vertex loop
new_vertex_properties(g) ==
    LET center == <<main_screen_width \div 2, screen_height \div 2>>
        offset_magnitude == Min(main_screen_width, screen_height) \div 2 - CircleMargin
    IN  [k \in 1..g.vertices |->
            [DefaultVertexProperties EXCEPT
                !.position = VAdd(center, <<SinQ(k - 1, g.vertices) * offset_magnitude,
                                            -CosQ(k - 1, g.vertices) * offset_magnitude>>)]]

\* GraphInterface::new and update_edges, the edge loop
new_edge_properties(g) ==
    [k \in 1..Len(g.edges) |-> [DefaultEdgeProperties EXCEPT !.vertices = g.edges[k]]]

get_position(vp, vertex) ==
    IF vertex < Len(vp) THEN vp[vertex + 1].position ELSE ZERO

\* mutant of set_position: the entries added below the index take the
\* position too
set_position_fills_with_position(vp, vertex, position) ==
    IF vertex < Len(vp)
    THEN [vp EXCEPT ![vertex + 1].position = position]
    ELSE vp \o [k \in 1..(vertex - Len(vp) + 1) |->
                   [DefaultVertexProperties EXCEPT !.position = position]]

set_position(vp, vertex, position) ==
    IF vertex < Len(vp)
    THEN [vp EXCEPT ![vertex + 1].position = position]
    ELSE vp \o [k \in 1..(vertex - Len(vp)) |-> DefaultVertexProperties]
            \o << [DefaultVertexProperties EXCEPT !.position = position] >>


DrawStatesOf(ep) == {ep[k].draw_state : k \in 1..Len(ep)}

\* what the observers record for an operation
Observe(op, nc, rc, ow) ==
    /\ last_op' = op
    /\ next_calls' = nc
    /\ recorded_calls' = rc
    /\ overwritten' = ow
    /\ UNCHANGED export_vars

\* SVGWriter::new; a String is the sequence of its characters
SVGWriter_new ==
    [svg_string |-> <<>>,
     indentation_level |-> 0,
     indentation_size |-> 4,
     has_header |-> FALSE,
     finalised |-> FALSE]

\* no export in progress, no decoder call made
InitExport ==
    /\ writer = SVGWriter_new
    /\ parse_call = None
    /\ writer_result = None

-----------------------------------------------------------------------------
(* graph.rs: the graph6 decoder.  A &str is the sequence of its bytes. *)

\* Result<_, Graph6ParseError>, and the abort of the process by a panic
Ok(x) == [tag |-> "Ok", value |-> Some(x), supported_size |-> None]
Err(tag) == [tag |-> tag, value |-> None, supported_size |-> None]
UnsupportedGraphSize(size) ==
    [tag |-> "UnsupportedGraphSize", value |-> None, supported_size |-> Some(size)]
Panic == [tag |-> "panic", value |-> None, supported_size |-> None]

\* b - 63 on u8 in a build without overflow checks
U8Sub63(b) == (b - 63 + 256) % 256

\* b'>', the first byte of the optional header
HeaderByte == 62

\* mutant of graph6_number_of_vertices: the byte 126 is read as a size byte
graph6_number_of_vertices_reads_126(g6_bytes, checks) ==
    IF Len(g6_bytes) = 0
    THEN Err("EmptyString")
    ELSE LET start_char == g6_bytes[1]
             index == IF g6_bytes[1] = HeaderByte THEN 10 ELSE 0
         IN  IF ~(63 <= start_char /\ start_char <= 126) /\ start_char # HeaderByte
             THEN Err("InvalidStartCharacter")
             ELSE IF g6_bytes[1] = HeaderByte /\ index >= Len(g6_bytes)
             THEN Err("UnexpectedStringEnd")
             ELSE IF g6_bytes[index + 1] <= 126
             THEN IF g6_bytes[index + 1] < 63 /\ checks
                  THEN Panic
                  ELSE Ok(U8Sub63(g6_bytes[index + 1]))
             ELSE UnsupportedGraphSize(62)

\* the u8 subtraction at line 90 overflows for a byte below 63, which only
\* the byte after a header can be: a panic in a build with overflow checks,
\* a wrap in one without
graph6_number_of_vertices(g6_bytes, checks) ==
    IF Len(g6_bytes) = 0
    THEN Err("EmptyString")
    ELSE LET start_char == g6_bytes[1]
             index == IF g6_bytes[1] = HeaderByte THEN 10 ELSE 0
         IN  IF ~(63 <= start_char /\ start_char <= 126) /\ start_char # HeaderByte
             THEN Err("InvalidStartCharacter")
             ELSE IF g6_bytes[1] = HeaderByte /\ index >= Len(g6_bytes)
             THEN Err("UnexpectedStringEnd")
             ELSE IF g6_bytes[index + 1] < 126
             THEN IF g6_bytes[index + 1] < 63 /\ checks
                  THEN Panic
                  ELSE Ok(U8Sub63(g6_bytes[index + 1]))
             ELSE UnsupportedGraphSize(62)

\* mutant of bit_is_set: the six bits are read from the least significant
bit_is_set_mirrored(current_bits, current_bit) ==
    (current_bits \div (32 \div current_bit)) % 2 = 1

\* (current_bits & current_bit) != 0, for a one-bit mask
bit_is_set(current_bits, current_bit) ==
    (current_bits \div current_bit) % 2 = 1

\* the loops of parse_graph6_string from byte index and mask current_bit on,
\* with the edges pushed so far; the subtraction at line 41 overflows for a
\* data byte below 63
RECURSIVE parse_from(_, _, _, _, _, _, _, _)
parse_from(g6_bytes, vertices, checks, index, current_bit, current_vertex, current_neighbour, edges) ==
    IF index >= Len(g6_bytes)
    THEN Ok(Graph(vertices, edges))
    ELSE IF g6_bytes[index + 1] < 63 /\ checks
    THEN Panic
    ELSE LET current_bits == U8Sub63(g6_bytes[index + 1])
             pushed == IF bit_is_set(current_bits, current_bit)
                       THEN Append(edges, <<current_neighbour, current_vertex>>)
                       ELSE edges
             column_done == current_neighbour + 1 >= current_vertex
             next_vertex == IF column_done THEN current_vertex + 1 ELSE current_vertex
             next_neighbour == IF column_done THEN 0 ELSE current_neighbour + 1
         IN  IF next_vertex >= vertices
             THEN Ok(Graph(vertices, pushed))
             ELSE IF current_bit = 1
             THEN parse_from(g6_bytes, vertices, checks, index + 1, 32,
                             next_vertex, next_neighbour, pushed)
             ELSE parse_from(g6_bytes, vertices, checks, index, current_bit \div 2,
                             next_vertex, next_neighbour, pushed)

parse_graph6_string(g6_bytes, checks) ==
    LET counted == graph6_number_of_vertices(g6_bytes, checks)
    IN  IF counted.tag # "Ok"
        THEN counted
        ELSE LET vertices == Unwrap(counted.value)
                 header == IF g6_bytes[1] = HeaderByte THEN 10 ELSE 0
             IN  IF vertices <= 62
                 THEN parse_from(g6_bytes, vertices, checks, header + 1, 32, 1, 0, <<>>)
                 ELSE IF vertices <= 64
                 THEN parse_from(g6_bytes, vertices, checks, header + 4, 32, 1, 0, <<>>)
                 ELSE UnsupportedGraphSize(64)

-----------------------------------------------------------------------------
(* Hit-testing *)

\* the least element of a non-empty set of indices: the first hit of a loop
\* that returns at its first match
First(S) == CHOOSE i \in S : \A j \in S : i <= j

\* mutant of get_vertex_at_position: the last hit is returned
get_vertex_at_position_last_hit(vp, position) ==
    LET hits == {i \in 0..(Len(vp) - 1) :
                    DistanceSq(position, vp[i + 1].position) < vp[i + 1].radius * vp[i + 1].radius}
    IN  IF hits = {} THEN None ELSE Some(CHOOSE i \in hits : \A j \in hits : j <= i)

get_vertex_at_position(vp, position) ==
    LET hits == {i \in 0..(Len(vp) - 1) :
                    DistanceSq(position, vp[i + 1].position) < vp[i + 1].radius * vp[i + 1].radius}
    IN  IF hits = {} THEN None ELSE Some(First(hits))

\* distance_to_line(start, end, point) < width, without the square root:
\* |c| / root < width  iff  c * c < width * width * (a * a + b * b);
\* root = 0 gives f32::MAX, which is below no width
distance_to_line_below(line_start, line_end, point, width) ==
    LET a == line_end[1] - line_start[1]
        b == line_end[2] - line_start[2]
        c == a * (line_start[2] - point[2]) - (line_start[1] - point[1]) * b
    IN  /\ a * a + b * b # 0
        /\ c * c < width * width * (a * a + b * b)

get_edge_at_position(vp, ep, position) ==
    LET hit(i) ==
            LET start == get_position(vp, ep[i + 1].vertices[1])
                end == get_position(vp, ep[i + 1].vertices[2])
                width == ep[i + 1].width
                min_x == Min(start[1], end[1]) - width
                max_x == Max(start[1], end[1]) + width
                min_y == Min(start[2], end[2]) - width
                max_y == Max(start[2], end[2]) + width
            IN  /\ min_x <= position[1] /\ position[1] <= max_x
                /\ min_y <= position[2] /\ position[2] <= max_y
                /\ distance_to_line_below(start, end, position, width)
        hits == {i \in 0..(Len(ep) - 1) : hit(i)}
    IN  IF hits = {} THEN None ELSE Some(First(hits))

-----------------------------------------------------------------------------
(* Highlighting, on the edge collection *)

\* mutant of cleared_edges: only Highlighted edges are reset
cleared_edges_highlighted_only(ep) ==
    [k \in 1..Len(ep) |->
        IF ep[k].draw_state = "Highlighted"
        THEN [ep[k] EXCEPT !.draw_state = "Default"]
        ELSE ep[k]]

\* clear_edge_highlighting, the loop
cleared_edges(ep) == [k \in 1..Len(ep) |-> [ep[k] EXCEPT !.draw_state = "Default"]]

\* add_edge_highlighting
add_edge_highlighting(ep, edges) ==
    [k \in 1..Len(ep) |->
        IF Contains(edges, ep[k].vertices)
        THEN [ep[k] EXCEPT !.draw_state = "Highlighted"]
        ELSE ep[k]]

\* mutant of apply_history_entry: edges outside the entry keep their state
apply_history_entry_additive(ep, entry) ==
    [k \in 1..Len(ep) |->
        IF Contains(entry.edges, ep[k].vertices)
        THEN [ep[k] EXCEPT !.draw_state = "Highlighted"]
        ELSE ep[k]]

\* the loop of set_next_highlighting and set_previous_highlighting
apply_history_entry(ep, entry) ==
    [k \in 1..Len(ep) |->
        IF Contains(entry.edges, ep[k].vertices)
        THEN [ep[k] EXCEPT !.draw_state = "Highlighted"]
        ELSE [ep[k] EXCEPT !.draw_state = "Default"]]


-----------------------------------------------------------------------------
(* GraphInterface: edges and the highlight history *)

\* mutant of update_edges: the vertex states are rebuilt with the edges
update_edges_rebuilds_vertices(g) ==
    /\ ~panicked
    /\ edge_properties' = new_edge_properties(g)
    /\ vertex_properties' = new_vertex_properties(g)
    /\ Observe("update_edges", -1, recorded_calls, DrawStatesOf(edge_properties))
    /\ UNCHANGED <<pointer_vars, history_vars, overflow_checks, panicked>>

\* Content.graph is the caller's to keep or replace
update_edges(g) ==
    /\ ~panicked
    /\ edge_properties' = new_edge_properties(g)
    /\ Observe("update_edges", -1, recorded_calls, DrawStatesOf(edge_properties))
    /\ UNCHANGED <<vertex_properties, pointer_vars, history_vars,
                   overflow_checks, panicked>>

\* mutant of clear_edge_highlighting: the cursor is left where it was
clear_edge_highlighting_keeps_cursor ==
    /\ ~panicked
    /\ edge_properties' = cleared_edges(edge_properties)
    /\ Observe("clear_edge_highlighting", 0, recorded_calls, DrawStatesOf(edge_properties))
    /\ UNCHANGED <<vertex_properties, pointer_vars, history_vars,
                   graph, overflow_checks, panicked>>

clear_edge_highlighting ==
    /\ ~panicked
    /\ edge_properties' = cleared_edges(edge_properties)
    /\ current_highlight_graph' = None
    /\ Observe("clear_edge_highlighting", 0, recorded_calls, DrawStatesOf(edge_properties))
    /\ UNCHANGED <<vertex_properties, pointer_vars, highlight_graph_history,
                   graph, overflow_checks, panicked>>

set_edge_highlighting(edges) ==
    /\ ~panicked
    /\ edge_properties' = add_edge_highlighting(cleared_edges(edge_properties), edges)
    /\ current_highlight_graph' = None
    /\ Observe("set_edge_highlighting", -1, recorded_calls, DrawStatesOf(edge_properties))
    /\ UNCHANGED <<vertex_properties, pointer_vars, highlight_graph_history,
                   graph, overflow_checks, panicked>>

\* mutant of clear_highlight_history: the entries are dropped and nothing else
clear_highlight_history_entries_only ==
    /\ ~panicked
    /\ highlight_graph_history' = <<>>
    /\ Observe("clear_highlight_history", 0, 0, DrawStatesOf(edge_properties))
    /\ UNCHANGED <<vertex_properties, edge_properties, pointer_vars,
                   current_highlight_graph, graph, overflow_checks, panicked>>

clear_highlight_history ==
    /\ ~panicked
    /\ highlight_graph_history' = <<>>
    /\ edge_properties' = cleared_edges(edge_properties)
    /\ current_highlight_graph' = None
    /\ Observe("clear_highlight_history", 0, 0, DrawStatesOf(edge_properties))
    /\ UNCHANGED <<vertex_properties, pointer_vars, graph, overflow_checks, panicked>>

add_graph_to_history(g) ==
    /\ ~panicked
    /\ Len(highlight_graph_history) < MaxHistory
    /\ highlight_graph_history' = Append(highlight_graph_history, g)
    /\ Observe("add_graph_to_history", -1, -1, {})
    /\ UNCHANGED <<vertex_properties, edge_properties, pointer_vars,
                   current_highlight_graph, graph, overflow_checks, panicked>>

\* mutant of set_edge_highlighting_and_add_to_history: the cursor is not
\* advanced after the push
set_edge_highlighting_and_add_to_history_no_cursor(g) ==
    /\ ~panicked
    /\ Len(highlight_graph_history) < MaxHistory
    /\ edge_properties' = add_edge_highlighting(cleared_edges(edge_properties), g.edges)
    /\ highlight_graph_history' = Append(highlight_graph_history, g)
    /\ current_highlight_graph' = None
    /\ Observe("set_edge_highlighting_and_add_to_history", -1,
               IF recorded_calls = Len(highlight_graph_history)
               THEN recorded_calls + 1 ELSE -1, DrawStatesOf(edge_properties))
    /\ UNCHANGED <<vertex_properties, pointer_vars, graph, overflow_checks, panicked>>

set_edge_highlighting_and_add_to_history(g) ==
    /\ ~panicked
    /\ Len(highlight_graph_history) < MaxHistory
    /\ edge_properties' = add_edge_highlighting(cleared_edges(edge_properties), g.edges)
    /\ highlight_graph_history' = Append(highlight_graph_history, g)
    /\ current_highlight_graph' = Some(Len(highlight_graph_history') - 1)
    /\ Observe("set_edge_highlighting_and_add_to_history", -1,
               IF recorded_calls = Len(highlight_graph_history)
               THEN recorded_calls + 1 ELSE -1, DrawStatesOf(edge_properties))
    /\ UNCHANGED <<vertex_properties, pointer_vars, graph, overflow_checks, panicked>>

\* mutant of set_next_highlighting: stepping past the last entry wraps round
\* to the first
set_next_highlighting_wrapping ==
    LET highlight_vec == highlight_graph_history
        target_index == IF IsSome(current_highlight_graph)
                        THEN (Unwrap(current_highlight_graph) + 1) % Max(Len(highlight_vec), 1)
                        ELSE 0
        counted == IF next_calls >= 0 /\ next_calls <= MaxHistory
                   THEN next_calls + 1 ELSE -1
    IN  /\ ~panicked
        /\ IF target_index < Len(highlight_vec)
           THEN /\ current_highlight_graph' = Some(target_index)
                /\ edge_properties' =
                       apply_history_entry(edge_properties, highlight_vec[target_index + 1])
                /\ Observe("set_next_highlighting", counted, recorded_calls, {})
           ELSE /\ UNCHANGED <<current_highlight_graph, edge_properties>>
                /\ Observe("set_next_highlighting: out of range", counted, recorded_calls, {})
        /\ UNCHANGED <<vertex_properties, pointer_vars, highlight_graph_history,
                       graph, overflow_checks, panicked>>

set_next_highlighting ==
    LET highlight_vec == highlight_graph_history
        target_index == IF IsSome(current_highlight_graph)
                        THEN Unwrap(current_highlight_graph) + 1
                        ELSE 0
        counted == IF next_calls >= 0 /\ next_calls <= MaxHistory
                   THEN next_calls + 1 ELSE -1
    IN  /\ ~panicked
        /\ IF target_index < Len(highlight_vec)
           THEN /\ current_highlight_graph' = Some(target_index)
                /\ edge_properties' =
                       apply_history_entry(edge_properties, highlight_vec[target_index + 1])
                /\ Observe("set_next_highlighting", counted, recorded_calls, {})
           ELSE /\ UNCHANGED <<current_highlight_graph, edge_properties>>
                /\ Observe("set_next_highlighting: out of range", counted, recorded_calls, {})
        /\ UNCHANGED <<vertex_properties, pointer_vars, highlight_graph_history,
                       graph, overflow_checks, panicked>>

\* index - 1 at index 0 and len - 1 at len 0 overflow usize: a panic in a
\* build with overflow checks, a wrap to the largest usize in one without
set_previous_highlighting ==
    LET highlight_vec == highlight_graph_history
        minuend == IF IsSome(current_highlight_graph)
                   THEN Unwrap(current_highlight_graph)
                   ELSE Len(highlight_vec)
        target_index == WrappingSub(minuend, 1)
    IN  /\ ~panicked
        /\ IF minuend = 0 /\ overflow_checks
           THEN /\ panicked' = TRUE
                /\ UNCHANGED <<current_highlight_graph, edge_properties>>
                /\ Observe("set_previous_highlighting: panic", -1, recorded_calls, {})
           ELSE /\ UNCHANGED panicked
                /\ IF target_index < Len(highlight_vec)
                   THEN /\ current_highlight_graph' = Some(target_index)
                        /\ edge_properties' =
                               apply_history_entry(edge_properties, highlight_vec[target_index + 1])
                        /\ Observe("set_previous_highlighting", -1, recorded_calls, {})
                   ELSE /\ UNCHANGED <<current_highlight_graph, edge_properties>>
                        /\ Observe("set_previous_highlighting: out of range", -1, recorded_calls, {})
        /\ UNCHANGED <<vertex_properties, pointer_vars, highlight_graph_history,
                       graph, overflow_checks>>

-----------------------------------------------------------------------------
(* ClickHandler *)

\* the reading of the clock a frame makes, dt after the previous frame.  Only
\* differences to the stored press time are ever computed, so the clock is
\* counted from the last frame that stored no press time.
FrameTime(dt) == IF IsSome(click_start) THEN now + dt ELSE 0

\* register_mouse_button_status: click_start afterwards
register_click_start(start, mouse_down, mouse_position, t) ==
    IF mouse_down
    THEN IF start = None
         THEN Some([time |-> t, position |-> mouse_position])
         ELSE start
    ELSE None

\* mutant of register_click: every release of a press is a click
register_click_any_release(start, mouse_down, t) ==
    /\ ~mouse_down
    /\ IsSome(start)

\* register_mouse_button_status: registered_click_this_frame afterwards
register_click(start, mouse_down, t) ==
    /\ ~mouse_down
    /\ IsSome(start)
    /\ t - Unwrap(start).time < DragMinDuration

\* mutant of mouse_drag: the press duration alone decides
mouse_drag_by_duration(start, mouse_position, t) ==
    /\ IsSome(start)
    /\ t - Unwrap(start).time > DragMinDuration

\* mutant of mouse_drag: the distance from the press alone decides
mouse_drag_by_distance(start, mouse_position, t) ==
    /\ IsSome(start)
    /\ DistanceSq(Unwrap(start).position, mouse_position) > DragMinDistance * DragMinDistance

mouse_drag(start, mouse_position, t) ==
    /\ IsSome(start)
    /\ \/ t - Unwrap(start).time > DragMinDuration
       \/ DistanceSq(Unwrap(start).position, mouse_position) > DragMinDistance * DragMinDistance

-----------------------------------------------------------------------------
(* GraphInterface::handle_mouse_input: one pointer sample *)

\* mutant of handle_mouse_input: the end of a drag leaves the
\* dragged-vertex flag set
handle_mouse_input_keeps_flag(mouse_down, mouse_position, dt) ==
    LET t == FrameTime(dt)
        start == register_click_start(click_start, mouse_down, mouse_position, t)
        click == register_click(click_start, mouse_down, t)
        drag == mouse_drag(start, mouse_position, t)
    IN  /\ ~panicked
        /\ mouse_down => t <= MaxClock
        /\ click_start' = start
        /\ registered_click_this_frame' = click
        /\ now' = IF IsSome(start) THEN t ELSE 0
        /\ IF IsSome(drag_state)
           THEN LET previous_drag_state == Unwrap(drag_state)
                    dragged == previous_drag_state.vertex
                IN  IF drag
                    THEN \* still dragging
                         LET delta == VSub(mouse_position, previous_drag_state.mouse_position)
                             old_pos == get_position(vertex_properties, dragged)
                             new_pos == VAdd(old_pos, delta)
                         IN  /\ vertex_properties' = set_position(vertex_properties, dragged, new_pos)
                             /\ drag_state' = Some([vertex |-> dragged,
                                                    mouse_position |-> mouse_position])
                             /\ UNCHANGED <<dragged_vertex, hovered_vertex, hovered_edge,
                                            edge_properties>>
                    ELSE \* stop dragging
                         /\ drag_state' = None
                         /\ UNCHANGED <<dragged_vertex, vertex_properties, hovered_vertex,
                                        hovered_edge, edge_properties>>
           ELSE LET hit_vertex == get_vertex_at_position(vertex_properties, mouse_position)
                    hit_edge == get_edge_at_position(vertex_properties, edge_properties,
                                                     mouse_position)
                    new_hovered_vertex == IF ~drag THEN hit_vertex ELSE None
                    new_hovered_edge == IF hit_vertex = None THEN hit_edge ELSE None
                IN  /\ hovered_vertex' = new_hovered_vertex
                    /\ IF drag /\ IsSome(hit_vertex)
                       THEN /\ dragged_vertex' = hit_vertex
                            /\ drag_state' = Some([vertex |-> Unwrap(hit_vertex),
                                                   mouse_position |-> mouse_position])
                       ELSE UNCHANGED <<dragged_vertex, drag_state>>
                    /\ hovered_edge' = new_hovered_edge
                    /\ vertex_properties' =
                           IF click /\ IsSome(new_hovered_vertex)
                           THEN [vertex_properties EXCEPT
                                    ![Unwrap(new_hovered_vertex) + 1].draw_state =
                                        cycle_drawstate(@)]
                           ELSE vertex_properties
                    /\ edge_properties' =
                           IF click /\ IsSome(new_hovered_edge)
                           THEN [edge_properties EXCEPT
                                    ![Unwrap(new_hovered_edge) + 1].draw_state =
                                        cycle_drawstate(@)]
                           ELSE edge_properties
        /\ Observe("handle_mouse_input", next_calls, recorded_calls, {})
        /\ UNCHANGED <<history_vars, graph, overflow_checks, panicked>>

\* mutant of handle_mouse_input: the displacement is measured from the
\* press position
handle_mouse_input_delta_from_press(mouse_down, mouse_position, dt) ==
    LET t == FrameTime(dt)
        start == register_click_start(click_start, mouse_down, mouse_position, t)
        click == register_click(click_start, mouse_down, t)
        drag == mouse_drag(start, mouse_position, t)
    IN  /\ ~panicked
        /\ mouse_down => t <= MaxClock
        /\ click_start' = start
        /\ registered_click_this_frame' = click
        /\ now' = IF IsSome(start) THEN t ELSE 0
        /\ IF IsSome(drag_state)
           THEN LET previous_drag_state == Unwrap(drag_state)
                    dragged == previous_drag_state.vertex
                IN  IF drag
                    THEN \* still dragging
                         LET delta == VSub(mouse_position, Unwrap(start).position)
                             old_pos == get_position(vertex_properties, dragged)
                             new_pos == VAdd(old_pos, delta)
                         IN  /\ vertex_properties' = set_position(vertex_properties, dragged, new_pos)
                             /\ drag_state' = Some([vertex |-> dragged,
                                                    mouse_position |-> mouse_position])
                             /\ UNCHANGED <<dragged_vertex, hovered_vertex, hovered_edge,
                                            edge_properties>>
                    ELSE \* stop dragging
                         /\ drag_state' = None
                         /\ dragged_vertex' = None
                         /\ UNCHANGED <<vertex_properties, hovered_vertex, hovered_edge,
                                        edge_properties>>
           ELSE LET hit_vertex == get_vertex_at_position(vertex_properties, mouse_position)
                    hit_edge == get_edge_at_position(vertex_properties, edge_properties,
                                                     mouse_position)
                    new_hovered_vertex == IF ~drag THEN hit_vertex ELSE None
                    new_hovered_edge == IF hit_vertex = None THEN hit_edge ELSE None
                IN  /\ hovered_vertex' = new_hovered_vertex
                    /\ IF drag /\ IsSome(hit_vertex)
                       THEN /\ dragged_vertex' = hit_vertex
                            /\ drag_state' = Some([vertex |-> Unwrap(hit_vertex),
                                                   mouse_position |-> mouse_position])
                       ELSE UNCHANGED <<dragged_vertex, drag_state>>
                    /\ hovered_edge' = new_hovered_edge
                    /\ vertex_properties' =
                           IF click /\ IsSome(new_hovered_vertex)
                           THEN [vertex_properties EXCEPT
                                    ![Unwrap(new_hovered_vertex) + 1].draw_state =
                                        cycle_drawstate(@)]
                           ELSE vertex_properties
                    /\ edge_properties' =
                           IF click /\ IsSome(new_hovered_edge)
                           THEN [edge_properties EXCEPT
                                    ![Unwrap(new_hovered_edge) + 1].draw_state =
                                        cycle_drawstate(@)]
                           ELSE edge_properties
        /\ Observe("handle_mouse_input", next_calls, recorded_calls, {})
        /\ UNCHANGED <<history_vars, graph, overflow_checks, panicked>>

\* mutant of handle_mouse_input: the sample that starts a drag leaves the
\* vertex under the pointer hovered
handle_mouse_input_keeps_hover(mouse_down, mouse_position, dt) ==
    LET t == FrameTime(dt)
        start == register_click_start(click_start, mouse_down, mouse_position, t)
        click == register_click(click_start, mouse_down, t)
        drag == mouse_drag(start, mouse_position, t)
    IN  /\ ~panicked
        /\ mouse_down => t <= MaxClock
        /\ click_start' = start
        /\ registered_click_this_frame' = click
        /\ now' = IF IsSome(start) THEN t ELSE 0
        /\ IF IsSome(drag_state)
           THEN LET previous_drag_state == Unwrap(drag_state)
                    dragged == previous_drag_state.vertex
                IN  IF drag
                    THEN \* still dragging
                         LET delta == VSub(mouse_position, previous_drag_state.mouse_position)
                             old_pos == get_position(vertex_properties, dragged)
                             new_pos == VAdd(old_pos, delta)
                         IN  /\ vertex_properties' = set_position(vertex_properties, dragged, new_pos)
                             /\ drag_state' = Some([vertex |-> dragged,
                                                    mouse_position |-> mouse_position])
                             /\ UNCHANGED <<dragged_vertex, hovered_vertex, hovered_edge,
                                            edge_properties>>
                    ELSE \* stop dragging
                         /\ drag_state' = None
                         /\ dragged_vertex' = None
                         /\ UNCHANGED <<vertex_properties, hovered_vertex, hovered_edge,
                                        edge_properties>>
           ELSE LET hit_vertex == get_vertex_at_position(vertex_properties, mouse_position)
                    hit_edge == get_edge_at_position(vertex_properties, edge_properties,
                                                     mouse_position)
                    new_hovered_vertex == hit_vertex
                    new_hovered_edge == IF hit_vertex = None THEN hit_edge ELSE None
                IN  /\ hovered_vertex' = new_hovered_vertex
                    /\ IF drag /\ IsSome(hit_vertex)
                       THEN /\ dragged_vertex' = hit_vertex
                            /\ drag_state' = Some([vertex |-> Unwrap(hit_vertex),
                                                   mouse_position |-> mouse_position])
                       ELSE UNCHANGED <<dragged_vertex, drag_state>>
                    /\ hovered_edge' = new_hovered_edge
                    /\ vertex_properties' =
                           IF click /\ IsSome(new_hovered_vertex)
                           THEN [vertex_properties EXCEPT
                                    ![Unwrap(new_hovered_vertex) + 1].draw_state =
                                        cycle_drawstate(@)]
                           ELSE vertex_properties
                    /\ edge_properties' =
                           IF click /\ IsSome(new_hovered_edge)
                           THEN [edge_properties EXCEPT
                                    ![Unwrap(new_hovered_edge) + 1].draw_state =
                                        cycle_drawstate(@)]
                           ELSE edge_properties
        /\ Observe("handle_mouse_input", next_calls, recorded_calls, {})
        /\ UNCHANGED <<history_vars, graph, overflow_checks, panicked>>

\* mutant of handle_mouse_input: the edge under the pointer is hovered
\* whether a vertex is hit or not
handle_mouse_input_hovers_edge_under_vertex(mouse_down, mouse_position, dt) ==
    LET t == FrameTime(dt)
        start == register_click_start(click_start, mouse_down, mouse_position, t)
        click == register_click(click_start, mouse_down, t)
        drag == mouse_drag(start, mouse_position, t)
    IN  /\ ~panicked
        /\ mouse_down => t <= MaxClock
        /\ click_start' = start
        /\ registered_click_this_frame' = click
        /\ now' = IF IsSome(start) THEN t ELSE 0
        /\ IF IsSome(drag_state)
           THEN LET previous_drag_state == Unwrap(drag_state)
                    dragged == previous_drag_state.vertex
                IN  IF drag
                    THEN \* still dragging
                         LET delta == VSub(mouse_position, previous_drag_state.mouse_position)
                             old_pos == get_position(vertex_properties, dragged)
                             new_pos == VAdd(old_pos, delta)
                         IN  /\ vertex_properties' = set_position(vertex_properties, dragged, new_pos)
                             /\ drag_state' = Some([vertex |-> dragged,
                                                    mouse_position |-> mouse_position])
                             /\ UNCHANGED <<dragged_vertex, hovered_vertex, hovered_edge,
                                            edge_properties>>
                    ELSE \* stop dragging
                         /\ drag_state' = None
                         /\ dragged_vertex' = None
                         /\ UNCHANGED <<vertex_properties, hovered_vertex, hovered_edge,
                                        edge_properties>>
           ELSE LET hit_vertex == get_vertex_at_position(vertex_properties, mouse_position)
                    hit_edge == get_edge_at_position(vertex_properties, edge_properties,
                                                     mouse_position)
                    new_hovered_vertex == IF ~drag THEN hit_vertex ELSE None
                    new_hovered_edge == hit_edge
                IN  /\ hovered_vertex' = new_hovered_vertex
                    /\ IF drag /\ IsSome(hit_vertex)
                       THEN /\ dragged_vertex' = hit_vertex
                            /\ drag_state' = Some([vertex |-> Unwrap(hit_vertex),
                                                   mouse_position |-> mouse_position])
                       ELSE UNCHANGED <<dragged_vertex, drag_state>>
                    /\ hovered_edge' = new_hovered_edge
                    /\ vertex_properties' =
                           IF click /\ IsSome(new_hovered_vertex)
                           THEN [vertex_properties EXCEPT
                                    ![Unwrap(new_hovered_vertex) + 1].draw_state =
                                        cycle_drawstate(@)]
                           ELSE vertex_properties
                    /\ edge_properties' =
                           IF click /\ IsSome(new_hovered_edge)
                           THEN [edge_properties EXCEPT
                                    ![Unwrap(new_hovered_edge) + 1].draw_state =
                                        cycle_drawstate(@)]
                           ELSE edge_properties
        /\ Observe("handle_mouse_input", next_calls, recorded_calls, {})
        /\ UNCHANGED <<history_vars, graph, overflow_checks, panicked>>

handle_mouse_input(mouse_down, mouse_position, dt) ==
    LET t == FrameTime(dt)
        start == register_click_start(click_start, mouse_down, mouse_position, t)
        click == register_click(click_start, mouse_down, t)
        drag == mouse_drag(start, mouse_position, t)
    IN  /\ ~panicked
        /\ mouse_down => t <= MaxClock
        /\ click_start' = start
        /\ registered_click_this_frame' = click
        /\ now' = IF IsSome(start) THEN t ELSE 0
        /\ IF IsSome(drag_state)
           THEN LET previous_drag_state == Unwrap(drag_state)
                    dragged == previous_drag_state.vertex
                IN  IF drag
                    THEN \* still dragging
                         LET delta == VSub(mouse_position, previous_drag_state.mouse_position)
                             old_pos == get_position(vertex_properties, dragged)
                             new_pos == VAdd(old_pos, delta)
                         IN  /\ vertex_properties' = set_position(vertex_properties, dragged, new_pos)
                             /\ drag_state' = Some([vertex |-> dragged,
                                                    mouse_position |-> mouse_position])
                             /\ UNCHANGED <<dragged_vertex, hovered_vertex, hovered_edge,
                                            edge_properties>>
                    ELSE \* stop dragging
                         /\ drag_state' = None
                         /\ dragged_vertex' = None
                         /\ UNCHANGED <<vertex_properties, hovered_vertex, hovered_edge,
                                        edge_properties>>
           ELSE LET hit_vertex == get_vertex_at_position(vertex_properties, mouse_position)
                    hit_edge == get_edge_at_position(vertex_properties, edge_properties,
                                                     mouse_position)
                    new_hovered_vertex == IF ~drag THEN hit_vertex ELSE None
                    new_hovered_edge == IF hit_vertex = None THEN hit_edge ELSE None
                IN  /\ hovered_vertex' = new_hovered_vertex
                    /\ IF drag /\ IsSome(hit_vertex)
                       THEN /\ dragged_vertex' = hit_vertex
                            /\ drag_state' = Some([vertex |-> Unwrap(hit_vertex),
                                                   mouse_position |-> mouse_position])
                       ELSE UNCHANGED <<dragged_vertex, drag_state>>
                    /\ hovered_edge' = new_hovered_edge
                    /\ vertex_properties' =
                           IF click /\ IsSome(new_hovered_vertex)
                           THEN [vertex_properties EXCEPT
                                    ![Unwrap(new_hovered_vertex) + 1].draw_state =
                                        cycle_drawstate(@)]
                           ELSE vertex_properties
                    /\ edge_properties' =
                           IF click /\ IsSome(new_hovered_edge)
                           THEN [edge_properties EXCEPT
                                    ![Unwrap(new_hovered_edge) + 1].draw_state =
                                        cycle_drawstate(@)]
                           ELSE edge_properties
        /\ Observe("handle_mouse_input", next_calls, recorded_calls, {})
        /\ UNCHANGED <<history_vars, graph, overflow_checks, panicked>>

-----------------------------------------------------------------------------
(* The highlight history under the control panel: Spec *)

\* the graphs given to update_edges and the highlight sets given to the
\* history operations
HistoryGraphs ==
    { Graph(4, << <<0, 1>>, <<1, 2>> >>),
      Graph(4, << <<1, 3>> >>) }

\* the pointer rests on the segment between vertices 0 and 1 or on the one
\* between vertices 1 and 2, off every vertex disc
HistoryPointers == {<<95, 65>>, <<95, 95>>}

Init ==
    /\ graph = ContentNewGraph
    /\ vertex_properties = new_vertex_properties(graph)
    /\ edge_properties = new_edge_properties(graph)
    /\ dragged_vertex = None
    /\ hovered_vertex = None
    /\ drag_state = None
    /\ hovered_edge = None
    /\ click_start = None
    /\ registered_click_this_frame = FALSE
    /\ highlight_graph_history = <<>>
    /\ current_highlight_graph = None
    /\ now = 0
    /\ overflow_checks \in BOOLEAN
    /\ panicked = FALSE
    /\ last_op = "new"
    /\ next_calls = 0
    /\ recorded_calls = 0
    /\ overwritten = {}
    /\ InitExport

Next ==
    \/ \E g \in HistoryGraphs : update_edges(g) /\ UNCHANGED graph
    \/ clear_edge_highlighting
    \/ \E g \in HistoryGraphs : set_edge_highlighting(g.edges)
    \/ clear_highlight_history
    \/ \E g \in HistoryGraphs : add_graph_to_history(g)
    \/ \E g \in HistoryGraphs : set_edge_highlighting_and_add_to_history(g)
    \/ set_next_highlighting
    \/ set_previous_highlighting
    \/ \E mouse_down \in BOOLEAN, mouse_position \in HistoryPointers :
           handle_mouse_input(mouse_down, mouse_position, HistoryFrameStep)

Spec == Init /\ [][Next]_vars

-----------------------------------------------------------------------------
(* Layout passes: the common integrator *)

\* mutant of apply_forces: the dragged vertex is integrated like the others
apply_forces_moves_dragged(vp, dragged, forces) ==
    IF Len(forces) # Len(vp)
    THEN vp
    ELSE [k \in 1..Len(vp) |->
            [vp[k] EXCEPT
                !.position = Clamp(VAdd(get_position(vp, k - 1), forces[k]),
                                   <<0, 0>>, <<main_screen_width, screen_height>>)]]

\* mutant of apply_forces: no length test; every force is integrated, and
\* set_position appends a vertex state for a force beyond the collection
apply_forces_unchecked(vp, dragged, forces) ==
    [k \in 1..Max(Len(vp), Len(forces)) |->
        IF k > Len(forces) \/ dragged = Some(k - 1)
        THEN vp[k]
        ELSE [(IF k <= Len(vp) THEN vp[k] ELSE DefaultVertexProperties) EXCEPT
                !.position = Clamp(VAdd(get_position(vp, k - 1), forces[k]),
                                   <<0, 0>>, <<main_screen_width, screen_height>>)]]

\* mutant of apply_forces: the new position is clamped from below only
apply_forces_clamps_below(vp, dragged, forces) ==
    IF Len(forces) # Len(vp)
    THEN vp
    ELSE [k \in 1..Len(vp) |->
            IF dragged = Some(k - 1)
            THEN vp[k]
            ELSE [vp[k] EXCEPT
                    !.position = LET p == VAdd(get_position(vp, k - 1), forces[k])
                                 IN  <<Max(p[1], 0), Max(p[2], 0)>>]]

\* apply_forces on the vertex collection; iteration k writes vertex k alone
apply_forces(vp, dragged, forces) ==
    IF Len(forces) # Len(vp)
    THEN vp
    ELSE [k \in 1..Len(vp) |->
            IF dragged = Some(k - 1)
            THEN vp[k]
            ELSE [vp[k] EXCEPT
                    !.position = Clamp(VAdd(get_position(vp, k - 1), forces[k]),
                                       <<0, 0>>, <<main_screen_width, screen_height>>)]]

\* the forces a pass may compute: none, one that keeps the vertices of a new
\* embedding on the canvas, and one that drives a vertex far outside it
Forces == {<<0, 0>>, <<60, 60>>, <<-200, 200>>}

\* a layout pass: the force array it computed, handed to apply_forces
layout_pass(forces) ==
    /\ ~panicked
    /\ vertex_properties' = apply_forces(vertex_properties, dragged_vertex, forces)
    /\ Observe(IF Len(forces) = Len(vertex_properties)
               THEN "apply_forces" ELSE "apply_forces: length mismatch",
               next_calls, recorded_calls, {})
    /\ UNCHANGED <<edge_properties, pointer_vars, history_vars, graph,
                   overflow_checks, panicked>>

\* apply_force: one force per vertex of the graph, each the sum of the
\* pairwise terms (logarithmic along an edge, exponential otherwise, a random
\* jitter between coincident vertices); a lone vertex gets the zero force.
\* The f32 values are not computed: any force of Forces may come out.
apply_force(g) ==
    \E forces \in [1..g.vertices -> IF g.vertices = 1 THEN {ZERO} ELSE Forces] :
        layout_pass(forces)

\* align_to_square_grid: one force per vertex state, towards the nearest
\* grid point
align_to_square_grid ==
    \E forces \in [1..Len(vertex_properties) -> Forces] :
        layout_pass(forces)

\* align_to_circular_grid: one force per vertex state, towards the nearest
\* ring
align_to_circular_grid ==
    \E forces \in [1..Len(vertex_properties) -> Forces] :
        layout_pass(forces)

-----------------------------------------------------------------------------
(* The control panel: import and reset *)

\* GraphInterface::new
new_embedding(g) ==
    /\ ~panicked
    /\ vertex_properties' = new_vertex_properties(g)
    /\ edge_properties' = new_edge_properties(g)
    /\ dragged_vertex' = None
    /\ hovered_vertex' = None
    /\ drag_state' = None
    /\ hovered_edge' = None
    /\ click_start' = None
    /\ registered_click_this_frame' = FALSE
    /\ highlight_graph_history' = <<>>
    /\ current_highlight_graph' = None
    /\ now' = 0
    /\ Observe("new", 0, 0, {})
    /\ UNCHANGED <<overflow_checks, panicked>>

\* handle_ui, "Import graph", for a text field that decodes to g
import_graph(g, keep_embedding) ==
    /\ IF ~keep_embedding THEN new_embedding(g) ELSE update_edges(g)
    /\ graph' = g

\* handle_ui, "Reset embedding"
reset_embedding ==
    /\ new_embedding(graph)
    /\ UNCHANGED graph

-----------------------------------------------------------------------------
(* Pointer samples and layout passes on a two-vertex embedding: SpecLayout *)

\* the graphs the import field decodes to
LayoutGraphs ==
    { Graph(2, << <<0, 1>> >>),
      Graph(2, << >>) }

\* the pointer: on vertex 0's centre, and 10 units below it (still on its
\* disc, beyond the drag distance)
LayoutPointers == {<<80, 50>>, <<80, 60>>}

\* the time between two frames, in milliseconds: a press is released after
\* 63 ms or held for 126 ms
FrameSteps == {63}

InitLayout ==
    /\ graph = Graph(2, << <<0, 1>> >>)
    /\ vertex_properties = new_vertex_properties(graph)
    /\ edge_properties = new_edge_properties(graph)
    /\ dragged_vertex = None
    /\ hovered_vertex = None
    /\ drag_state = None
    /\ hovered_edge = None
    /\ click_start = None
    /\ registered_click_this_frame = FALSE
    /\ highlight_graph_history = <<>>
    /\ current_highlight_graph = None
    /\ now = 0
    /\ overflow_checks = TRUE   \* no operation of SpecLayout reads it
    /\ panicked = FALSE
    /\ last_op = "new"
    /\ next_calls = 0
    /\ recorded_calls = 0
    /\ overwritten = {}
    /\ InitExport

NextLayout ==
    \/ \E mouse_down \in BOOLEAN, mouse_position \in LayoutPointers, dt \in FrameSteps :
           handle_mouse_input(mouse_down, mouse_position, dt)
    \/ apply_force(graph)
    \/ align_to_square_grid
    \/ align_to_circular_grid
    \/ \E g \in LayoutGraphs, keep_embedding \in BOOLEAN : import_graph(g, keep_embedding)
    \/ reset_embedding

SpecLayout == InitLayout /\ [][NextLayout]_vars

-----------------------------------------------------------------------------
(* Imports that keep the embedding, and layout passes: SpecImport *)

\* the graphs the import field decodes to: one and two vertices
ImportGraphs ==
    { Graph(2, << <<0, 1>> >>),
      Graph(1, << >>) }

InitImport == InitLayout

NextImport ==
    \/ apply_force(graph)
    \/ align_to_square_grid
    \/ align_to_circular_grid
    \/ \E g \in ImportGraphs, keep_embedding \in BOOLEAN : import_graph(g, keep_embedding)
    \/ reset_embedding

SpecImport == InitImport /\ [][NextImport]_vars

-----------------------------------------------------------------------------
(* Pointer samples on the start-up embedding: SpecPointer *)

\* the pointer: on vertex 0's centre, 10 units below it (still on its disc,
\* beyond the drag distance), and on the middle of the segment between
\* vertices 0 and 1, off every disc
PointerPositions == {<<80, 50>>, <<80, 60>>, <<95, 65>>}

\* the time between two frames, in milliseconds: two frames after a press
\* the clock reads 124, 125 or 126 ms more
PointerFrameSteps == {62, 63}

InitPointer ==
    /\ Init
    /\ overflow_checks = TRUE   \* no operation of SpecPointer reads it

NextPointer ==
    \E mouse_down \in BOOLEAN, mouse_position \in PointerPositions, dt \in PointerFrameSteps :
        handle_mouse_input(mouse_down, mouse_position, dt)

SpecPointer == InitPointer /\ [][NextPointer]_vars

-----------------------------------------------------------------------------
(* One vertex dragged onto another: SpecDrag *)

\* the pointer: on vertex 1's centre, 10 units below it (still on its disc,
\* beyond the drag distance), and on vertex 0's centre; a drag of vertex 1
\* from the second point to the third leaves it ten units above vertex 0,
\* both discs over vertex 0's centre
DragPointers == {<<110, 80>>, <<110, 90>>, <<80, 50>>}

\* the time between two frames, in milliseconds: a press and two more
\* samples fit below MaxClock
DragFrameSteps == {40}

InitDrag ==
    /\ Init
    /\ overflow_checks = TRUE   \* no operation of SpecDrag reads it

NextDrag ==
    \E mouse_down \in BOOLEAN, mouse_position \in DragPointers, dt \in DragFrameSteps :
        handle_mouse_input(mouse_down, mouse_position, dt)

SpecDrag == InitDrag /\ [][NextDrag]_vars

-----------------------------------------------------------------------------
(* set_position called with any index: SpecPosition *)

\* the largest index set_position is called with
MaxVertexIndex == 4

\* the positions given to set_position
SetPositions == {<<80, 50>>, <<10, 20>>}

call_set_position(vertex, position) ==
    /\ ~panicked
    /\ vertex_properties' = set_position(vertex_properties, vertex, position)
    /\ Observe("set_position", next_calls, recorded_calls, {})
    /\ UNCHANGED <<edge_properties, pointer_vars, history_vars, graph,
                   overflow_checks, panicked>>

InitPosition == InitLayout

NextPosition ==
    \E vertex \in 0..MaxVertexIndex, position \in SetPositions :
        call_set_position(vertex, position)

SpecPosition == InitPosition /\ [][NextPosition]_vars

-----------------------------------------------------------------------------
(* The import field of the control panel: SpecDecode *)

\* handle_ui, "Import graph", with g6_string in the text field: a decoding
\* error is logged and nothing else happens
import_button(g6_string, keep_embedding) ==
    LET result == parse_graph6_string(g6_string, overflow_checks)
    IN  /\ ~panicked
        /\ parse_call' = Some([input |-> g6_string, result |-> result])
        /\ next_calls' = -1
        /\ CASE result.tag = "Ok" ->
                   LET g == Unwrap(result.value)
                   IN  /\ IF ~keep_embedding
                          THEN /\ vertex_properties' = new_vertex_properties(g)
                               /\ dragged_vertex' = None
                               /\ hovered_vertex' = None
                               /\ drag_state' = None
                               /\ hovered_edge' = None
                               /\ click_start' = None
                               /\ registered_click_this_frame' = FALSE
                               /\ highlight_graph_history' = <<>>
                               /\ current_highlight_graph' = None
                               /\ now' = 0
                               /\ recorded_calls' = 0
                          ELSE UNCHANGED <<vertex_properties, pointer_vars, history_vars,
                                           recorded_calls>>
                       /\ edge_properties' = new_edge_properties(g)
                       /\ graph' = g
                       /\ last_op' = "import_graph"
                       /\ overwritten' = DrawStatesOf(edge_properties)
                       /\ UNCHANGED panicked
             [] result.tag = "panic" ->
                   /\ panicked' = TRUE
                   /\ last_op' = "import_graph: panic"
                   /\ overwritten' = {}
                   /\ UNCHANGED <<interface_vars, graph, now, recorded_calls>>
             [] OTHER ->
                   /\ last_op' = "import_graph: error"
                   /\ overwritten' = {}
                   /\ UNCHANGED <<interface_vars, graph, now, recorded_calls, panicked>>
        /\ UNCHANGED <<overflow_checks, writer, writer_result>>

\* the strict upper triangle of an n-vertex graph
Pairs(n) == {<<u, v>> \in (0..(n - 1)) \X (0..(n - 1)) : u < v}

\* the graphs whose encodings are typed into the field: every graph of up to
\* four vertices and, so that the data takes two bytes, the five-vertex
\* graphs with at most MaxFiveVertexEdges edges and the complete one
MaxFiveVertexEdges == 1
SmallGraphs ==
    UNION {{[vertices |-> n, edges |-> E] : E \in SUBSET Pairs(n)} : n \in 0..4}
    \cup {[vertices |-> 5, edges |-> E] :
              E \in {F \in SUBSET Pairs(5) : Cardinality(F) <= MaxFiveVertexEdges}
                        \cup {Pairs(5)}}

\* the reference graph6 encoder: the size byte n + 63, then the strict upper
\* triangle column by column (pair (u, v) is bit v * (v - 1) / 2 + u), padded
\* with zeros to whole groups of six bits, the first bit of a group the most
\* significant, each group plus 63
TriangleBit(n, E, p) ==
    IF p >= (n * (n - 1)) \div 2
    THEN 0
    ELSE LET v == CHOOSE w \in 1..(n - 1) :
                      (w * (w - 1)) \div 2 <= p /\ p < (w * (w + 1)) \div 2
             u == p - (v * (v - 1)) \div 2
         IN  IF <<u, v>> \in E THEN 1 ELSE 0

ReferenceEncoding(g) ==
    LET n == g.vertices
        groups == ((n * (n - 1)) \div 2 + 5) \div 6
        group(j) ==
            32 * TriangleBit(n, g.edges, 6 * j) + 16 * TriangleBit(n, g.edges, 6 * j + 1)
            + 8 * TriangleBit(n, g.edges, 6 * j + 2) + 4 * TriangleBit(n, g.edges, 6 * j + 3)
            + 2 * TriangleBit(n, g.edges, 6 * j + 4) + TriangleBit(n, g.edges, 6 * j + 5)
    IN  <<n + 63>> \o [j \in 1..groups |-> 63 + group(j - 1)]

\* ">>graph6<<", the optional header
Graph6Header == <<62, 62, 103, 114, 97, 112, 104, 54, 60, 60>>

\* other strings typed into the field
OtherInputs ==
    { <<>>,                                  \* the empty string
      <<33>>, <<195, 169>>,                  \* "!", and a non-ASCII character
      <<62>>, Graph6Header,                  \* a header cut short
      Graph6Header \o <<65, 95>>,            \* the header, then "A_"
      Graph6Header \o <<33>>,                \* the header, then a size byte below 63
      Graph6Header \o <<126>>,
      <<126>>,                               \* "~"
      <<126, 63, 63, 126>>,                  \* the four-byte size of 63 vertices
      <<126, 63, 64, 63>>,                   \* ... of 64 vertices
      <<126, 63, 64, 64>>,                   \* ... of 65 vertices
      <<126, 126, 63, 63, 63, 63, 63, 64>>,  \* the eight-byte size of 1 vertex
      <<63, 63>>, <<63, 95>>, <<63, 33>>,    \* no vertex, then a data byte
      <<64, 63>>, <<64, 95>>, <<64, 126, 126>>,  \* one vertex, then data bytes
      <<65, 33>>,                            \* two vertices, a data byte below 63
      <<65, 95, 95>>,                        \* two vertices, a data byte too many
      <<65, 195, 169>>,                      \* two vertices, non-ASCII data
      <<66>>, <<68, 126>> }                  \* three and five vertices, data missing

Graph6Inputs == {ReferenceEncoding(g) : g \in SmallGraphs} \cup OtherInputs

\* the "Keep vertex positions" box is ticked
DecodeKeepEmbedding == {TRUE}

InitDecode == Init

NextDecode ==
    \E g6_string \in Graph6Inputs, keep_embedding \in DecodeKeepEmbedding :
        import_button(g6_string, keep_embedding)

SpecDecode == InitDecode /\ [][NextDecode]_vars

-----------------------------------------------------------------------------
(* The highlight field of the control panel: SpecHighlight *)

\* str::lines on the bytes of the field: the pieces between line feeds, each
\* without a carriage return at its end, and no last empty piece
RECURSIVE byte_lines(_)
byte_lines(bytes) ==
    LET strip(line) ==
            IF line # <<>> /\ line[Len(line)] = 13
            THEN SubSeq(line, 1, Len(line) - 1)
            ELSE line
    IN  IF bytes = <<>>
        THEN <<>>
        ELSE LET feeds == {k \in 1..Len(bytes) : bytes[k] = 10}
             IN  IF feeds = {}
                 THEN <<strip(bytes)>>
                 ELSE LET k == CHOOSE i \in feeds : \A j \in feeds : i <= j
                      IN  <<strip(SubSeq(bytes, 1, k - 1))>>
                          \o byte_lines(SubSeq(bytes, k + 1, Len(bytes)))

\* the part of the embedding the highlight field writes
Highlighting(ep, history, current, aborted) ==
    [edge_properties |-> ep, highlight_graph_history |-> history,
     current_highlight_graph |-> current, panicked |-> aborted]

\* mutant of highlight_lines: the first line that fails ends the loop
RECURSIVE highlight_lines_until_invalid(_, _, _)
highlight_lines_until_invalid(graphs, embedding, checks) ==
    IF graphs = <<>>
    THEN embedding
    ELSE LET result == parse_graph6_string(Head(graphs), checks)
         IN  IF result.tag = "Ok"
             THEN LET g == Unwrap(result.value)
                      history == Append(embedding.highlight_graph_history, g)
                  IN  highlight_lines_until_invalid(
                          Tail(graphs),
                          Highlighting(
                              add_edge_highlighting(cleared_edges(embedding.edge_properties),
                                                    g.edges),
                              history, Some(Len(history) - 1), FALSE),
                          checks)
             ELSE IF result.tag = "panic"
             THEN [embedding EXCEPT !.panicked = TRUE]
             ELSE embedding

\* the loop of parse_and_add_highlighting, with the body of
\* set_edge_highlighting_and_add_to_history for each line that parses
RECURSIVE highlight_lines(_, _, _)
highlight_lines(graphs, embedding, checks) ==
    IF graphs = <<>>
    THEN embedding
    ELSE LET result == parse_graph6_string(Head(graphs), checks)
         IN  IF result.tag = "Ok"
             THEN LET g == Unwrap(result.value)
                      history == Append(embedding.highlight_graph_history, g)
                  IN  highlight_lines(
                          Tail(graphs),
                          Highlighting(
                              add_edge_highlighting(cleared_edges(embedding.edge_properties),
                                                    g.edges),
                              history, Some(Len(history) - 1), FALSE),
                          checks)
             ELSE IF result.tag = "panic"
             THEN [embedding EXCEPT !.panicked = TRUE]
             ELSE highlight_lines(Tail(graphs), embedding, checks)

parse_and_add_highlighting(highlighting_string) ==
    LET before == Highlighting(edge_properties, highlight_graph_history,
                               current_highlight_graph, FALSE)
        after == highlight_lines(byte_lines(highlighting_string), before, overflow_checks)
        added == Len(after.highlight_graph_history) - Len(highlight_graph_history)
    IN  /\ ~panicked
        /\ Len(after.highlight_graph_history) <= MaxHistory
        /\ edge_properties' = after.edge_properties
        /\ highlight_graph_history' = after.highlight_graph_history
        /\ current_highlight_graph' = after.current_highlight_graph
        /\ panicked' = after.panicked
        /\ Observe(IF after.panicked
                   THEN "parse_and_add_highlighting: panic"
                   ELSE "parse_and_add_highlighting",
                   -1,
                   IF recorded_calls = Len(highlight_graph_history)
                   THEN recorded_calls + added ELSE -1,
                   IF added > 0 THEN DrawStatesOf(edge_properties) ELSE {})
        /\ UNCHANGED <<vertex_properties, pointer_vars, graph, overflow_checks>>

\* lines typed into the field: two graphs on four vertices, an empty line
\* and a line with a data byte below 63
PathLine == ReferenceEncoding([vertices |-> 4, edges |-> {<<0, 1>>, <<1, 2>>}])
EdgeLine == ReferenceEncoding([vertices |-> 4, edges |-> {<<1, 3>>}])
EmptyLine == <<>>
LowByteLine == <<67, 33>>

HighlightLines == {PathLine, EdgeLine, EmptyLine, LowByteLine}

RECURSIVE JoinLines(_, _)
JoinLines(text_lines, separator) ==
    IF text_lines = <<>>
    THEN <<>>
    ELSE IF Len(text_lines) = 1
    THEN Head(text_lines)
    ELSE Head(text_lines) \o separator \o JoinLines(Tail(text_lines), separator)

\* every text of up to two of the lines, the last line without a line end
\* or with carriage return and line feed, and four texts of three lines
HighlightTexts ==
    UNION { { JoinLines(text_lines, <<10>>) \o ending :
                text_lines \in [1..n -> HighlightLines],
                ending \in {<<>>, <<13, 10>>} } : n \in 0..2 }
    \cup { JoinLines(<<PathLine, EmptyLine, EdgeLine>>, <<10>>),
           JoinLines(<<EmptyLine, EdgeLine, EmptyLine>>, <<13, 10>>),
           JoinLines(<<EdgeLine, LowByteLine, PathLine>>, <<10>>),
           JoinLines(<<EdgeLine, PathLine, EdgeLine>>, <<10>>) }

InitHighlight == Init

NextHighlight ==
    \/ \E highlighting_string \in HighlightTexts :
           parse_and_add_highlighting(highlighting_string)
    \/ set_next_highlighting
    \/ set_previous_highlighting
    \/ clear_edge_highlighting
    \/ clear_highlight_history

SpecHighlight == InitHighlight /\ [][NextHighlight]_vars

-----------------------------------------------------------------------------
(* svg_writer.rs: the items.  A String is the sequence of its characters;  *)
(* an f32 is formatted for the integers, a Color is its four bytes.        *)

Digits == <<"0", "1", "2", "3", "4", "5", "6", "7", "8", "9">>

\* the decimal digits of a natural number
RECURSIVE FormatNat(_)
FormatNat(n) ==
    IF n < 10
    THEN <<Digits[n + 1]>>
    ELSE Append(FormatNat(n \div 10), Digits[(n % 10) + 1])

\* "{}" of an f32 that is an integer: no decimal point
FormatF32(x) == IF x < 0 THEN <<"-">> \o FormatNat(-x) ELSE FormatNat(x)

HexDigits == <<"0", "1", "2", "3", "4", "5", "6", "7",
               "8", "9", "A", "B", "C", "D", "E", "F">>

\* "{:02X}" of a byte
FormatHexByte(b) == <<HexDigits[(b \div 16) + 1], HexDigits[(b % 16) + 1]>>

color_to_svg_string(color) ==
    <<"#">> \o FormatHexByte(color[1]) \o FormatHexByte(color[2]) \o FormatHexByte(color[3])

\* impl SVGItem for DrawableLabel
label_to_svg_string(label) ==
    <<"<", "t", "e", "x", "t">>
    \o <<" ", "x", "=", "\"">> \o FormatF32(label.position[1])
    \o <<"\"", " ", "y", "=", "\"">> \o FormatF32(label.position[2]) \o <<"\"">>
    \o <<" ", "f", "i", "l", "l", "=", "\"">> \o color_to_svg_string(label.color)
    \o <<"\"", " ", "f", "o", "n", "t", "-", "s", "i", "z", "e", "=", "\"", "2",
          "4", "\"">>
    \o <<">">>
    \o label.content
    \o <<"<", "/", "t", "e", "x", "t", ">", "\n">>

\* impl SVGItem for SVGViewBox
view_box_to_svg_string(width, height) ==
    <<"v", "i", "e", "w", "B", "o", "x", "=", "\"", "0", " ", "0", " ">>
    \o FormatF32(width) \o <<" ">> \o FormatF32(height) \o <<"\"">>

XML_HEADER ==
    <<"<", "?", "x", "m", "l", " ", "v", "e", "r", "s", "i", "o", "n", "=",
          "\"", "1", ".", "0", "\"", " ", "e", "n", "c", "o", "d", "i", "n",
          "g", "=", "\"", "U", "T", "F", "-", "8", "\"", " ", "s", "t", "a",
          "n", "d", "a", "l", "o", "n", "e", "=", "\"", "n", "o", "\"", "?", ">">>

DOCSTRING ==
    <<"<", "!", "-", "-", " ", "C", "r", "e", "a", "t", "e", "d", " ", "w",
          "i", "t", "h", " ", "G", "r", "a", "p", "h", "D", "r", "s", " ", "-",
          "-", ">">>

VersionAttribute ==
    <<"v", "e", "r", "s", "i", "o", "n", "=", "\"", "1", ".", "1", "\"">>

XmlnsAttribute ==
    <<"x", "m", "l", "n", "s", "=", "\"", "h", "t", "t", "p", ":", "/", "/",
          "w", "w", "w", ".", "w", "3", ".", "o", "r", "g", "/", "2", "0", "0",
          "0", "/", "s", "v", "g", "\"", ">">>

\* str::lines: the pieces between line feeds, without a last empty piece
\* (no item holds a carriage return)
RECURSIVE lines(_)
lines(string) ==
    IF string = <<>>
    THEN <<>>
    ELSE LET feeds == {k \in 1..Len(string) : string[k] = "\n"}
         IN  IF feeds = {}
             THEN <<string>>
             ELSE LET k == CHOOSE i \in feeds : \A j \in feeds : i <= j
                  IN  <<SubSeq(string, 1, k - 1)>> \o lines(SubSeq(string, k + 1, Len(string)))

\* format!("{:2$}{}\n", "", line, width) for each line
RECURSIVE indented(_, _)
indented(item_lines, width) ==
    IF item_lines = <<>>
    THEN <<>>
    ELSE [k \in 1..width |-> " "] \o Head(item_lines) \o <<"\n">>
         \o indented(Tail(item_lines), width)

-----------------------------------------------------------------------------
(* svg_writer.rs: SVGWriter.  Each method is a function from the writer to *)
(* the writer it leaves and the result it returns.                         *)

WriterOutcome(self, result) == [writer |-> self, result |-> result]

\* mutant of SVGWriter_add_item: a finalised writer still takes items
SVGWriter_add_item_after_finalise(self, item_string) ==
    IF ~self.has_header
    THEN WriterOutcome(self, "MissingHeader")
    ELSE WriterOutcome(
             [self EXCEPT !.svg_string =
                 @ \o indented(lines(item_string),
                               self.indentation_level * self.indentation_size)],
             "Ok")

SVGWriter_add_item(self, item_string) ==
    IF ~self.has_header
    THEN WriterOutcome(self, "MissingHeader")
    ELSE IF self.finalised
    THEN WriterOutcome(self, "AlreadyFinalised")
    ELSE WriterOutcome(
             [self EXCEPT !.svg_string =
                 @ \o indented(lines(item_string),
                               self.indentation_level * self.indentation_size)],
             "Ok")

\* the three add_item calls of write_header, each followed by `?`
RECURSIVE add_items(_, _)
add_items(self, item_strings) ==
    IF item_strings = <<>>
    THEN WriterOutcome(self, "Ok")
    ELSE LET added == SVGWriter_add_item(self, Head(item_strings))
         IN  IF added.result # "Ok"
             THEN added
             ELSE add_items(added.writer, Tail(item_strings))

SVGWriter_write_header(self, width, height) ==
    IF self.has_header
    THEN WriterOutcome(self, "AlreadyHasHeader")
    ELSE add_items(
             [self EXCEPT
                 !.svg_string = @ \o XML_HEADER \o <<"\n">> \o DOCSTRING \o <<"\n">>
                                  \o <<"\n">> \o <<"<", "s", "v", "g", "\n">>,
                 !.indentation_level = @ + 1,
                 !.has_header = TRUE],
             <<view_box_to_svg_string(width, height), VersionAttribute, XmlnsAttribute>>)

SVGWriter_finalise(self) ==
    IF ~self.has_header
    THEN WriterOutcome(self, "MissingHeader")
    ELSE IF self.finalised
    THEN WriterOutcome(self, "AlreadyFinalised")
    ELSE IF self.indentation_level # 1
    THEN WriterOutcome(self, "UnexpectedIndentationLevel")
    ELSE WriterOutcome(
             [self EXCEPT
                 !.indentation_level = @ - 1,
                 !.svg_string = @ \o <<"<", "/", "s", "v", "g", ">", "\n">>,
                 !.finalised = TRUE],
             "Ok")

\* the file system decides between Ok and FileIOError
SVGWriter_write_to_file(self, io_succeeds) ==
    IF ~self.finalised
    THEN WriterOutcome(self, "NotFinalised")
    ELSE WriterOutcome(self, IF io_succeeds THEN "Ok" ELSE "FileIOError")

-----------------------------------------------------------------------------
(* The writer driven method by method: SpecWriter *)

WHITE == <<255, 255, 255, 255>>
RED == <<255, 0, 0, 255>>

DrawableLabel(content, position, size, color) ==
    [content |-> content, position |-> position, size |-> size, color |-> color]

\* the label of tests::test_label, the label of vertex 6 and a longer one
WriterLabels ==
    { DrawableLabel(<<"t", "e", "s", "t", " ", "l", "a", "b", "e", "l">>,
                    <<0, 0>>, 10, WHITE),
      DrawableLabel(<<"7">>, <<12, -5>>, 35, RED),
      DrawableLabel(<<"1", "0">>, <<160, 100>>, 35, <<0, 10, 171, 255>>) }

HeaderSizes == {<<main_screen_width, ScreenHeight>>, <<0, 25>>}

\* the longest document that still takes an item
MaxDocumentLength == 260

writer_call(op, outcome, item) ==
    /\ ~panicked
    /\ writer' = outcome.writer
    /\ writer_result' = Some([tag |-> outcome.result, item |-> item])
    /\ last_op' = op
    /\ UNCHANGED <<interface_vars, graph, now, overflow_checks, panicked,
                   next_calls, recorded_calls, overwritten, parse_call>>

new_writer ==
    /\ ~panicked
    /\ writer' = SVGWriter_new
    /\ writer_result' = None
    /\ last_op' = "SVGWriter::new"
    /\ UNCHANGED <<interface_vars, graph, now, overflow_checks, panicked,
                   next_calls, recorded_calls, overwritten, parse_call>>

write_header(width, height) ==
    writer_call("write_header", SVGWriter_write_header(writer, width, height), None)

add_item(label) ==
    /\ Len(writer.svg_string) <= MaxDocumentLength
    /\ writer_call("add_item", SVGWriter_add_item(writer, label_to_svg_string(label)),
                   Some(label))

finalise == writer_call("finalise", SVGWriter_finalise(writer), None)

write_to_file(io_succeeds) ==
    writer_call("write_to_file", SVGWriter_write_to_file(writer, io_succeeds), None)

InitWriter == Init

NextWriter ==
    \/ new_writer
    \/ \E size \in HeaderSizes : write_header(size[1], size[2])
    \/ \E label \in WriterLabels : add_item(label)
    \/ finalise
    \/ \E io_succeeds \in BOOLEAN : write_to_file(io_succeeds)

SpecWriter == InitWriter /\ [][NextWriter]_vars

-----------------------------------------------------------------------------
(* DrawableGraph::compose, the edge primitives *)

\* the colour an edge draw state maps to (EdgeDrawConfig's field, or the
\* transparent colour)
edge_color(ds) ==
    CASE ds = "Default" -> "color"
      [] ds = "Highlighted" -> "highlight_color"
      [] ds = "Unhighlighted" -> "unhighlight_color"
      [] ds = "Hidden" -> "transparent"

\* the edge loop, up to and including edge number n: a Hidden edge that is
\* not hovered is skipped.  Labels are off (EdgeDrawConfig::default).
RECURSIVE compose_edges_upto(_, _, _, _)
compose_edges_upto(vp, ep, hovered, n) ==
    IF n = 0
    THEN <<>>
    ELSE LET index == n - 1
             edge == ep[n]
             is_hovered == hovered = Some(index)
             composed_edge ==
                 [start |-> get_position(vp, edge.vertices[1]),
                  end |-> get_position(vp, edge.vertices[2]),
                  width |-> IF is_hovered THEN EdgeWidth + 2 ELSE EdgeWidth,
                  color |-> IF is_hovered THEN "highlight_color"
                                          ELSE edge_color(edge.draw_state)]
             before == compose_edges_upto(vp, ep, hovered, n - 1)
         IN  IF edge.draw_state = "Hidden" /\ ~is_hovered
             THEN before
             ELSE Append(before, composed_edge)

compose_edges(vp, ep, hovered) == compose_edges_upto(vp, ep, hovered, Len(ep))

-----------------------------------------------------------------------------
(* DrawableGraph::compose, the vertex primitives *)

\* the main and the border colour a vertex draw state maps to
vertex_colors(ds) ==
    CASE ds = "Default" -> <<"main_color", "border_color">>
      [] ds = "Highlighted" -> <<"highlight_color", "highlight_color">>
      [] ds = "Unhighlighted" -> <<"unhighlight_color", "unhighlight_color">>
      [] ds = "Hidden" -> <<"transparent", "transparent">>

\* the vertex loop from vertex n - 1 down to vertex 0: a Hidden vertex that
\* is neither hovered nor dragged is skipped.  Labels are on and count from
\* one (VertexDrawConfig::default); of a label its content alone is kept.
RECURSIVE compose_vertices_from(_, _, _, _)
compose_vertices_from(vp, hovered, dragged, n) ==
    IF n = 0
    THEN <<>>
    ELSE LET index == n - 1
             is_hovered == hovered = Some(index)
             is_dragged == dragged = Some(index)
             is_interacted == is_hovered \/ is_dragged
             colors == IF is_dragged THEN <<"drag_color", "drag_color">>
                       ELSE IF is_hovered THEN <<"highlight_color", "highlight_color">>
                       ELSE vertex_colors(vp[n].draw_state)
             composed_vertex ==
                 [position |-> vp[n].position,
                  main_radius |-> VertexMainSize + (IF is_hovered THEN 2 ELSE 0),
                  border_radius |-> VertexBorderSize + VertexMainSize
                                        + (IF is_hovered THEN 2 ELSE 0),
                  main_color |-> colors[1],
                  border_color |-> colors[2],
                  label |-> Some(index + 1)]
             after == compose_vertices_from(vp, hovered, dragged, n - 1)
         IN  IF vp[n].draw_state = "Hidden" /\ ~is_interacted
             THEN after
             ELSE <<composed_vertex>> \o after

\* mutant of compose_vertices: the dragged vertex is not looked at
compose_vertices_ignores_drag(vp, hovered, dragged) ==
    compose_vertices_from(vp, hovered, None, Len(vp))

compose_vertices(vp, hovered, dragged) ==
    compose_vertices_from(vp, hovered, dragged, Len(vp))

-----------------------------------------------------------------------------
(* Claims about the highlight history, checked under Spec *)

HistoryLen == Len(highlight_graph_history)

CursorAt(i) == current_highlight_graph = Some(i)

PreviousCalled ==
    last_op' \in {"set_previous_highlighting",
                  "set_previous_highlighting: out of range",
                  "set_previous_highlighting: panic"}

NextCalled ==
    last_op' \in {"set_next_highlighting", "set_next_highlighting: out of range"}

\* edge k is Highlighted iff its endpoint pair is in edges, Default otherwise
HighlightIs(ep, edges) ==
    \A k \in 1..Len(ep) :
        ep[k].draw_state = IF Contains(edges, ep[k].vertices) THEN "Highlighted" ELSE "Default"

\* C1: previous() called with the cursor at index 0, or with an empty history
\* and the cursor unset, completes without failure and leaves the cursor, the
\* history entries and every edge draw state unchanged.
C1_PreviousAtStartIsNoOp ==
    [][(PreviousCalled /\ (CursorAt(0) \/ (current_highlight_graph = None /\ HistoryLen = 0)))
        => (~panicked' /\ UNCHANGED <<current_highlight_graph, highlight_graph_history,
                                      edge_properties>>)]_vars

\* C2: next() called with the cursor at the last history index leaves the
\* cursor, the history entries and every edge draw state unchanged.
C2_NextAtLastIsNoOp ==
    [][(NextCalled /\ HistoryLen >= 1 /\ CursorAt(HistoryLen - 1))
        => UNCHANGED <<current_highlight_graph, highlight_graph_history, edge_properties>>]_vars

\* next() was called at the last index while an edge held a draw state only a
\* click gives (a navigation that took effect would have overwritten it)
C2_Witness ==
    /\ last_op = "set_next_highlighting: out of range"
    /\ HistoryLen >= 1 /\ CursorAt(HistoryLen - 1)
    /\ \E k \in 1..Len(edge_properties) :
          edge_properties[k].draw_state \in {"Unhighlighted", "Hidden"}

\* C3: the cursor, when present, is a valid index into the history.
C3_CursorInRange ==
    IsSome(current_highlight_graph) =>
        Unwrap(current_highlight_graph) \in 0..(HistoryLen - 1)

\* the cursor was stepped back from the last entry of a full history
C3_Witness ==
    /\ last_op = "set_previous_highlighting"
    /\ HistoryLen = MaxHistory
    /\ IsSome(current_highlight_graph)
    /\ Unwrap(current_highlight_graph) < HistoryLen - 1

\* C4, as claimed: every step that appends an entry to the history leaves the
\* cursor at the index of the new last entry.
C4_EveryAppendSetsCursor ==
    [][(HistoryLen' = HistoryLen + 1) => current_highlight_graph' = Some(HistoryLen' - 1)]_vars

\* C4, amended: set_edge_highlighting_and_add_to_history leaves the cursor at
\* the index of the new last entry; add_graph_to_history appends the entry
\* and leaves the cursor as it was.
C4_AppendAndCursor ==
    [][(HistoryLen' = HistoryLen + 1) =>
          IF last_op' = "set_edge_highlighting_and_add_to_history"
          THEN current_highlight_graph' = Some(HistoryLen' - 1)
          ELSE /\ last_op' = "add_graph_to_history"
               /\ UNCHANGED current_highlight_graph]_vars

\* an entry was recorded (cursor 0) and a second one appended without it
C4_Witness ==
    /\ last_op = "add_graph_to_history"
    /\ HistoryLen = 2
    /\ CursorAt(0)

\* C5: when the history was built by k >= 1 highlight-and-record calls and the
\* cursor was then unset, the k-th next() call in a row leaves the cursor at
\* k - 1 and the edges highlighted by the last recorded set.
C5_ForwardStepsReachLast ==
    [][(/\ next_calls' = next_calls + 1
        /\ next_calls' = HistoryLen
        /\ recorded_calls = HistoryLen
        /\ HistoryLen >= 1)
        => /\ current_highlight_graph' = Some(HistoryLen - 1)
           /\ HighlightIs(edge_properties',
                          highlight_graph_history[HistoryLen].edges)]_vars

\* a history of two or more recorded sets was walked from the start to its end
C5_Witness ==
    /\ last_op = "set_next_highlighting"
    /\ HistoryLen >= 2
    /\ recorded_calls = HistoryLen
    /\ next_calls = HistoryLen
    /\ highlight_graph_history[1] # highlight_graph_history[HistoryLen]

\* C6: highlight(edge_set) leaves every edge whose endpoint pair is in edge_set
\* Highlighted and every other edge Default, whatever the states were before;
\* highlight-and-record does so for the set it records.
C6_HighlightOverwrites ==
    [][/\ \A g \in HistoryGraphs :
            set_edge_highlighting(g.edges) => HighlightIs(edge_properties', g.edges)
       /\ last_op' = "set_edge_highlighting_and_add_to_history" =>
            HighlightIs(edge_properties',
                        highlight_graph_history'[HistoryLen'].edges)]_vars

\* highlight(edge_set) replaced Highlighted, Unhighlighted and Hidden edges
C6_Witness ==
    /\ last_op = "set_edge_highlighting"
    /\ {"Highlighted", "Unhighlighted", "Hidden"} \subseteq overwritten
    /\ "Highlighted" \in DrawStatesOf(edge_properties)
    /\ "Default" \in DrawStatesOf(edge_properties)

\* C7: clear_highlighting() sets every edge to Default, unsets the cursor and
\* keeps the history entries; clear_history() does the same and leaves the
\* history empty; neither changes a vertex state.
C7_ClearEffects ==
    [][/\ last_op' = "clear_edge_highlighting" =>
            /\ DrawStatesOf(edge_properties') \subseteq {"Default"}
            /\ current_highlight_graph' = None
            /\ UNCHANGED <<highlight_graph_history, vertex_properties>>
       /\ last_op' = "clear_highlight_history" =>
            /\ DrawStatesOf(edge_properties') \subseteq {"Default"}
            /\ current_highlight_graph' = None
            /\ highlight_graph_history' = <<>>
            /\ UNCHANGED vertex_properties]_vars

\* clear_highlighting() reset clicked and highlighted edges and kept a history
\* of two entries
C7_Witness ==
    /\ last_op = "clear_edge_highlighting"
    /\ {"Highlighted", "Hidden"} \subseteq overwritten
    /\ HistoryLen = 2
    /\ current_highlight_graph = None

-----------------------------------------------------------------------------
(* Claims about layout passes and imports, checked under SpecLayout *)

InCanvas(p) ==
    /\ 0 <= p[1] /\ p[1] <= main_screen_width
    /\ 0 <= p[2] /\ p[2] <= screen_height

\* C8: update_edges(g) leaves every vertex state (position, hit radius, draw
\* state) unchanged and replaces the edges by one Default edge per entry of
\* g.edges, in order, so that compose emits Len(g.edges) edge primitives.
C8_UpdateEdgesKeepsVertices ==
    [][\A g \in LayoutGraphs :
          update_edges(g) =>
              /\ vertex_properties' = vertex_properties
              /\ Len(edge_properties') = Len(g.edges)
              /\ \A k \in 1..Len(g.edges) :
                    /\ edge_properties'[k].vertices = g.edges[k]
                    /\ edge_properties'[k].draw_state = "Default"
              /\ Len(compose_edges(vertex_properties', edge_properties', hovered_edge'))
                    = Len(g.edges)]_vars

\* the edges were replaced (none before, one after) on an embedding whose
\* vertices a drag and a layout pass had moved off their circle positions
C8_Witness ==
    /\ last_op = "update_edges"
    /\ overwritten = {}
    /\ Len(edge_properties) = 1
    /\ Len(vertex_properties) = 2
    /\ vertex_properties[1].position # new_vertex_properties(graph)[1].position
    /\ vertex_properties[2].position # new_vertex_properties(graph)[2].position

\* C9: while a drag on vertex v is active, a layout pass leaves v's position
\* as it was; only a pointer sample moves v.
C9_DraggedVertexExempt ==
    [][IsSome(drag_state) =>
          LET v == Unwrap(drag_state).vertex
          IN  /\ last_op' \in {"apply_forces", "apply_forces: length mismatch"} =>
                    get_position(vertex_properties', v) = get_position(vertex_properties, v)
              /\ (/\ drag_state' # None
                  /\ get_position(vertex_properties', v) # get_position(vertex_properties, v))
                    => last_op' = "handle_mouse_input"]_vars

\* a layout pass ran during a drag of vertex 0: it drove vertex 1 into the
\* canvas corner and left vertex 0 where the drag had put it
C9_Witness ==
    /\ last_op = "apply_forces"
    /\ IsSome(drag_state)
    /\ Unwrap(drag_state).vertex = 0
    /\ dragged_vertex = Some(0)
    /\ vertex_properties[1].position = <<80, 40>>
    /\ vertex_properties[2].position = <<0, screen_height>>

\* C10: after apply_forces with a force array of matching length, every
\* vertex that is not the dragged one lies in [0, W] x [0, H].
C10_IntegratorClamps ==
    last_op = "apply_forces" =>
        \A k \in 1..Len(vertex_properties) :
            dragged_vertex # Some(k - 1) => InCanvas(vertex_properties[k].position)

\* a pass clamped vertex 0 into a corner and vertex 1 onto the lower border
C10_Witness ==
    /\ last_op = "apply_forces"
    /\ dragged_vertex = None
    /\ vertex_properties[1].position = <<0, screen_height>>
    /\ vertex_properties[2].position = <<140, screen_height>>

-----------------------------------------------------------------------------
(* Claims about imports that keep the embedding, checked under SpecImport *)

\* the force arrays of up to three entries
ForceArrays == UNION {[1..n -> Forces] : n \in 0..3}

\* C11: apply_forces with a force array whose length differs from the number
\* of vertex states returns the vertex collection as it was (no position
\* changed, no vertex state added); so does apply_force(graph) when
\* graph.vertices differs from the number of vertex states.
C11_LengthMismatchIsNoOp ==
    /\ \A forces \in ForceArrays :
          Len(forces) # Len(vertex_properties) =>
              apply_forces(vertex_properties, dragged_vertex, forces) = vertex_properties
    /\ graph.vertices # Len(vertex_properties) =>
          \A forces \in [1..graph.vertices -> Forces] :
              /\ Len(apply_forces(vertex_properties, dragged_vertex, forces))
                    = Len(vertex_properties)
              /\ \A k \in 1..Len(vertex_properties) :
                    apply_forces(vertex_properties, dragged_vertex, forces)[k].position
                        = vertex_properties[k].position

\* a pass ran on a two-vertex embedding, moved off its circle positions by
\* earlier passes, after an import had kept it for a one-vertex graph
C11_Witness ==
    /\ last_op = "apply_forces: length mismatch"
    /\ graph.vertices = 1
    /\ Len(vertex_properties) = 2
    /\ vertex_properties[1].position = <<140, 110>>
    /\ vertex_properties[2].position = <<0, screen_height>>

-----------------------------------------------------------------------------
(* Claims about drags under layout passes, checked under SpecLayout *)

\* C12: DragState is present iff the dragged-vertex flag is set; when present
\* both name the same vertex, that index is within the vertex collection, and
\* apply_forces leaves that vertex as it is whatever the forces are.
C12_DragStateMatchesFlag ==
    /\ IsSome(drag_state) <=> IsSome(dragged_vertex)
    /\ IsSome(drag_state) =>
          LET v == Unwrap(drag_state).vertex
          IN  /\ dragged_vertex = Some(v)
              /\ v < Len(vertex_properties)
              /\ \A forces \in [1..Len(vertex_properties) -> Forces] :
                    apply_forces(vertex_properties, dragged_vertex, forces)[v + 1]
                        = vertex_properties[v + 1]

\* a drag has ended on a pointer-up sample, after a layout pass had run
\* during it
C12_Witness ==
    /\ last_op = "handle_mouse_input"
    /\ drag_state = None
    /\ dragged_vertex = None
    /\ click_start = None
    /\ vertex_properties[1].position = <<80, 40>>
    /\ vertex_properties[2].position = <<140, screen_height>>

-----------------------------------------------------------------------------
(* Claims about pointer samples, checked under SpecPointer *)

\* the inputs of a pointer sample
Samples == BOOLEAN \X PointerPositions \X PointerFrameSteps

\* the step is the pointer sample smp
IsSample(smp) == handle_mouse_input(smp[1], smp[2], smp[3])

\* the time since the stored press at a sample taken dt after the last one
Elapsed(dt) == (now + dt) - Unwrap(click_start).time

\* C13: a sample reports a click iff the pointer is up, a press was stored
\* before the sample, and less than 125 ms have passed since that press; the
\* flag is computed afresh on every sample, and after a pointer-up sample no
\* press is stored.
C13_ClickOnShortRelease ==
    [][\A smp \in Samples :
          IsSample(smp) =>
              /\ registered_click_this_frame' <=>
                    (~smp[1] /\ IsSome(click_start) /\ Elapsed(smp[3]) < 125)
              /\ ~smp[1] => click_start' = None]_vars

\* a press on vertex 0 was released within the threshold: the click is
\* reported and has cycled the vertex
C13_Witness ==
    /\ registered_click_this_frame
    /\ click_start = None
    /\ vertex_properties[1].draw_state = "Highlighted"

\* C14: a pointer-down sample taken while a press is stored leaves the stored
\* press time and position as they are; dragging is reported on a sample iff
\* a press is stored after it and either more than 125 ms have passed since
\* the press or the pointer is more than 5 units from the press position.  A
\* drag in progress continues iff dragging is reported, and a sample outside
\* a drag on which dragging is reported unsets the hovered vertex.
C14_DragClassifier ==
    [][\A smp \in Samples :
          IsSample(smp) =>
              LET pressed == IsSome(click_start')
                  expected ==
                      /\ pressed
                      /\ \/ FrameTime(smp[3]) - Unwrap(click_start').time > 125
                         \/ DistanceSq(Unwrap(click_start').position, smp[2]) > 5 * 5
              IN  /\ (smp[1] /\ IsSome(click_start)) =>
                        /\ Unwrap(click_start').time = Unwrap(click_start).time
                        /\ Unwrap(click_start').position = Unwrap(click_start).position
                  /\ mouse_drag(click_start', smp[2], FrameTime(smp[3])) <=> expected
                  /\ IsSome(drag_state) => (IsSome(drag_state') <=> expected)
                  /\ (drag_state = None /\ expected) => hovered_vertex' = None]_vars

\* a drag of vertex 0 began by distance alone, 62 ms after the press
C14_Witness ==
    /\ IsSome(drag_state)
    /\ IsSome(click_start)
    /\ now = 62
    /\ Unwrap(click_start).position = <<80, 50>>
    /\ Unwrap(drag_state).mouse_position = <<80, 60>>

\* C16: on a sample with no drag in progress, a sample on which dragging is
\* not reported sets the hovered vertex to the vertex hit and the hovered
\* edge to the edge hit (to none under a vertex); a sample on which dragging
\* is reported sets neither hover field to a vertex or an edge.
C16_HoverOnlyWhenNotDragging ==
    [][\A smp \in Samples :
          (IsSample(smp) /\ drag_state = None) =>
              LET hit_vertex == get_vertex_at_position(vertex_properties, smp[2])
                  hit_edge == get_edge_at_position(vertex_properties, edge_properties, smp[2])
              IN  IF mouse_drag(click_start', smp[2], FrameTime(smp[3]))
                  THEN hovered_vertex' = None /\ hovered_edge' = None
                  ELSE /\ hovered_vertex' = hit_vertex
                       /\ hovered_edge' = IF hit_vertex = None THEN hit_edge ELSE None]_vars

\* the cycle of the draw states, and the state one step after ds in it
CycleOrder == <<"Default", "Highlighted", "Unhighlighted", "Hidden">>
OneStepAfter(ds) ==
    LET i == CHOOSE k \in 1..4 : CycleOrder[k] = ds
    IN  CycleOrder[(i % 4) + 1]

VertexDrawStates(vp) == [k \in 1..Len(vp) |-> vp[k].draw_state]
EdgeDrawStates(ep) == [k \in 1..Len(ep) |-> ep[k].draw_state]

\* C17: on a sample with no drag in progress that reports a click, the draw
\* state of the hovered vertex and of the hovered edge (those of the state
\* after the sample) moves one step on in the cycle and every other draw
\* state stays; on a sample that reports no click every draw state stays.
C17_ClickCyclesHovered ==
    [][\A smp \in Samples :
          IsSample(smp) =>
              /\ (drag_state = None /\ registered_click_this_frame') =>
                    /\ VertexDrawStates(vertex_properties') =
                          [k \in 1..Len(vertex_properties) |->
                              IF hovered_vertex' = Some(k - 1)
                              THEN OneStepAfter(vertex_properties[k].draw_state)
                              ELSE vertex_properties[k].draw_state]
                    /\ EdgeDrawStates(edge_properties') =
                          [k \in 1..Len(edge_properties) |->
                              IF hovered_edge' = Some(k - 1)
                              THEN OneStepAfter(edge_properties[k].draw_state)
                              ELSE edge_properties[k].draw_state]
              /\ ~registered_click_this_frame' =>
                    /\ VertexDrawStates(vertex_properties') = VertexDrawStates(vertex_properties)
                    /\ EdgeDrawStates(edge_properties') = EdgeDrawStates(edge_properties)]_vars

\* a click on the edge between vertices 0 and 1 has just cycled it to Hidden;
\* earlier clicks had cycled vertex 0
C17_Witness ==
    /\ registered_click_this_frame
    /\ hovered_edge = Some(0)
    /\ hovered_vertex = None
    /\ edge_properties[1].draw_state = "Hidden"
    /\ vertex_properties[1].draw_state = "Unhighlighted"

RECURSIVE CycleTimes(_, _)
CycleTimes(ds, n) == IF n = 0 THEN ds ELSE cycle_drawstate(CycleTimes(ds, n - 1))

\* C18: the cycle operation maps Default to Highlighted, Highlighted to
\* Unhighlighted, Unhighlighted to Hidden and Hidden to Default; four
\* applications return any draw state, those of the vertices and edges of the
\* embedding included, to itself, and one, two or three applications never do.
C18_CycleHasPeriodFour ==
    /\ \A k \in 1..4 : cycle_drawstate(CycleOrder[k]) = CycleOrder[(k % 4) + 1]
    /\ \A ds \in DrawStates \cup DrawStatesOf(vertex_properties) \cup DrawStatesOf(edge_properties) :
          /\ CycleTimes(ds, 4) = ds
          /\ \A n \in 1..3 : CycleTimes(ds, n) # ds

\* clicks have cycled vertex 0 three times, to Hidden, and the edge between
\* vertices 0 and 1 once
C18_Witness ==
    /\ vertex_properties[1].draw_state = "Hidden"
    /\ edge_properties[1].draw_state = "Highlighted"
    /\ drag_state = None

\* the numbers of a finite set of naturals in increasing order
RECURSIVE Ascending(_)
Ascending(S) ==
    IF S = {}
    THEN <<>>
    ELSE LET m == CHOOSE x \in S : \A y \in S : y <= x
         IN  Append(Ascending(S \ {m}), m)

\* the vertices and the edges compose is to emit
ShownVertices ==
    {i \in 0..(Len(vertex_properties) - 1) :
        \/ vertex_properties[i + 1].draw_state # "Hidden"
        \/ hovered_vertex = Some(i)
        \/ dragged_vertex = Some(i)}
ShownEdges ==
    {i \in 0..(Len(edge_properties) - 1) :
        \/ edge_properties[i + 1].draw_state # "Hidden"
        \/ hovered_edge = Some(i)}

\* C19: compose emits one vertex primitive for each vertex that is not
\* Hidden, or hovered, or dragged, and for no other, in strictly decreasing
\* index order (the label tells the index), and one edge primitive for each
\* edge that is not Hidden, or hovered, in increasing index order.
C19_ComposeOrderAndHiding ==
    LET vertices == compose_vertices(vertex_properties, hovered_vertex, dragged_vertex)
        edges == compose_edges(vertex_properties, edge_properties, hovered_edge)
        shown == Ascending(ShownEdges)
    IN  /\ Len(vertices) = Cardinality(ShownVertices)
        /\ \A j \in 1..Len(vertices) :
              /\ Unwrap(vertices[j].label) - 1 \in ShownVertices
              /\ vertices[j].position
                    = vertex_properties[Unwrap(vertices[j].label)].position
        /\ \A j \in 1..(Len(vertices) - 1) :
              Unwrap(vertices[j].label) > Unwrap(vertices[j + 1].label)
        /\ Len(edges) = Len(shown)
        /\ \A j \in 1..Len(edges) :
              LET pair == edge_properties[shown[j] + 1].vertices
              IN  /\ edges[j].start = get_position(vertex_properties, pair[1])
                  /\ edges[j].end = get_position(vertex_properties, pair[2])

\* vertex 0 is Hidden and dragged, so it is emitted after the three others;
\* the edge between vertices 0 and 1 is Hidden and not hovered, so four of
\* the five edges are emitted
C19_Witness ==
    /\ vertex_properties[1].draw_state = "Hidden"
    /\ dragged_vertex = Some(0)
    /\ edge_properties[1].draw_state = "Hidden"
    /\ hovered_edge = None
    /\ Len(compose_vertices(vertex_properties, hovered_vertex, dragged_vertex)) = 4
    /\ Len(compose_edges(vertex_properties, edge_properties, hovered_edge)) = 4

-----------------------------------------------------------------------------
(* Claims about the course of a drag, checked under SpecLayout *)

\* C15: while a drag of vertex v goes on, every step (a pointer sample or a
\* layout pass) keeps the drag on v and keeps v's position minus the last
\* pointer position as it was, so a sample moves v by the pointer's
\* displacement since the previous sample; the pointer sample that ends the
\* drag clears DragState and the dragged-vertex flag and moves no vertex.
C15_DragFollowsPointer ==
    [][IsSome(drag_state) =>
          LET v == Unwrap(drag_state).vertex
          IN  /\ IsSome(drag_state') =>
                    /\ Unwrap(drag_state').vertex = v
                    /\ VSub(get_position(vertex_properties', v),
                            Unwrap(drag_state').mouse_position)
                         = VSub(get_position(vertex_properties, v),
                                Unwrap(drag_state).mouse_position)
              /\ (drag_state' = None /\ last_op' = "handle_mouse_input") =>
                    /\ dragged_vertex' = None
                    /\ vertex_properties' = vertex_properties]_vars

\* the third sample of a drag of vertex 0: the pointer went back up by 10
\* units and the vertex with it
C15_Witness ==
    /\ last_op = "handle_mouse_input"
    /\ IsSome(drag_state)
    /\ Unwrap(drag_state).vertex = 0
    /\ Unwrap(drag_state).mouse_position = <<80, 50>>
    /\ vertex_properties[1].position = <<80, 40>>
    /\ now = 126

-----------------------------------------------------------------------------
(* Claims about hit-testing, checked under SpecLayout *)

\* the disc of vertex i holds the point p
InDisc(i, p) ==
    DistanceSq(p, vertex_properties[i + 1].position)
        < vertex_properties[i + 1].radius * vertex_properties[i + 1].radius

\* C20 as stated: for every vertex v with a positive hit radius, the hit test
\* at v's stored position returns v.
C20_HitTestReturnsVertex ==
    \A k \in 1..Len(vertex_properties) :
        vertex_properties[k].radius > 0 =>
            get_vertex_at_position(vertex_properties, vertex_properties[k].position)
                = Some(k - 1)

\* C20, amended: for every vertex v with a positive hit radius, the hit test
\* at v's stored position returns the vertex of lowest index whose disc holds
\* that point: v itself iff no vertex of lower index does, and never none nor
\* a vertex of higher index.
C20_HitTestReturnsLowestCover ==
    \A k \in 1..Len(vertex_properties) :
        vertex_properties[k].radius > 0 =>
            LET p == vertex_properties[k].position
                hit == get_vertex_at_position(vertex_properties, p)
            IN  /\ IsSome(hit)
                /\ Unwrap(hit) <= k - 1
                /\ InDisc(Unwrap(hit), p)
                /\ \A j \in 0..(Unwrap(hit) - 1) : ~InDisc(j, p)
                /\ hit = Some(k - 1) <=> \A j \in 0..(k - 2) : ~InDisc(j, p)

\* layout passes have clamped both vertices into the same corner of the
\* canvas: the hit test at vertex 1's position returns vertex 0
C20_Witness ==
    /\ Len(vertex_properties) = 2
    /\ vertex_properties[1].position = <<0, screen_height>>
    /\ vertex_properties[2].position = <<0, screen_height>>
    /\ get_vertex_at_position(vertex_properties, vertex_properties[2].position) = Some(0)

-----------------------------------------------------------------------------
(* Claims about the graph6 decoder, checked under SpecDecode *)

\* the decoder has been called with input text; its result
Parsed(text) == IsSome(parse_call) /\ Unwrap(parse_call).input = text
ParseInput == Unwrap(parse_call).input
ParseResult == Unwrap(parse_call).result

\* the input asks, without a header, for a size given in four or eight bytes
\* (a first byte 126): every size of 65 vertices and more is asked for so
ExtendedSizeRequest(text) == Len(text) > 0 /\ text[1] = 126

\* C21: the empty string fails with EmptyString; a first byte outside
\* 63..126 that is not the header byte fails with InvalidStartCharacter; a
\* string that starts with the header byte and has fewer than 11 bytes fails
\* with UnexpectedStringEnd; a size request without header for 65 vertices or
\* more fails with UnsupportedGraphSize; none of these returns a graph.
C21_MalformedInputIsClassified ==
    IsSome(parse_call) =>
        /\ Len(ParseInput) = 0 =>
              ParseResult.tag = "EmptyString"
        /\ (Len(ParseInput) > 0 /\ ParseInput[1] \notin 62..126) =>
              ParseResult.tag = "InvalidStartCharacter"
        /\ (Len(ParseInput) \in 1..10 /\ ParseInput[1] = 62) =>
              ParseResult.tag = "UnexpectedStringEnd"
        /\ ExtendedSizeRequest(ParseInput) =>
              ParseResult.tag = "UnsupportedGraphSize"
        /\ ParseResult.tag \in {"EmptyString", "InvalidStartCharacter", "UnexpectedStringEnd",
                                "UnsupportedGraphSize"} =>
              ParseResult.value = None

\* the four-byte size of 65 vertices was typed: the decoder refused it, and
\* the graph imported before is still the current one
C21_Witness ==
    /\ Parsed(<<126, 63, 64, 64>>)
    /\ ParseResult.tag = "UnsupportedGraphSize"
    /\ last_op = "import_graph: error"
    /\ graph = Graph(2, << <<0, 1>> >>)

\* C22: for an input whose first byte is 63 (vertex count 0), whatever bytes
\* follow, the decoder returns a graph with no vertex and no edge.
C22_NoVertexNoEdge ==
    (IsSome(parse_call) /\ Len(ParseInput) > 0 /\ ParseInput[1] = 63) =>
        /\ ParseResult.tag = "Ok"
        /\ Unwrap(ParseResult.value).vertices = 0
        /\ Unwrap(ParseResult.value).edges = <<>>

\* the vertex count a four-byte size asks for: 126, then 18 bits in three
\* bytes of six bits, each plus 63
FourByteSize(text) ==
    (text[2] - 63) * 4096 + (text[3] - 63) * 64 + (text[4] - 63)

\* C23: an input that gives 63 or 64 vertices through the four-byte size
\* decodes to a graph with that vertex count, and an input without header is
\* refused with UnsupportedGraphSize only when it asks for more than 64.
C23_ExtendedSizeAccepted ==
    (IsSome(parse_call) /\ Len(ParseInput) >= 4 /\ ParseInput[1] = 126
        /\ ParseInput[2] # 126) =>
        IF FourByteSize(ParseInput) \in {63, 64}
        THEN /\ ParseResult.tag = "Ok"
             /\ Unwrap(ParseResult.value).vertices = FourByteSize(ParseInput)
        ELSE FourByteSize(ParseInput) > 64 => ParseResult.tag = "UnsupportedGraphSize"

\* the edges of a decoded graph as a set of unordered pairs, smaller first
UnorderedEdges(g) ==
    {<<Min(g.edges[k][1], g.edges[k][2]), Max(g.edges[k][1], g.edges[k][2])>> :
        k \in 1..Len(g.edges)}

\* C24: decoding the reference encoding of a graph of up to 62 vertices (here
\* every graph of SmallGraphs) returns a graph with the same vertex count and
\* the same edges up to order and the order of the endpoints, none twice.
C24_RoundTrip ==
    \A g \in SmallGraphs :
        Parsed(ReferenceEncoding(g)) =>
            /\ ParseResult.tag = "Ok"
            /\ Unwrap(ParseResult.value).vertices = g.vertices
            /\ UnorderedEdges(Unwrap(ParseResult.value)) = g.edges
            /\ Len(Unwrap(ParseResult.value).edges) = Cardinality(g.edges)

\* the encoding of the complete graph on five vertices (two data bytes) was
\* typed and imported
C24_Witness ==
    /\ Parsed(ReferenceEncoding([vertices |-> 5, edges |-> Pairs(5)]))
    /\ last_op = "import_graph"
    /\ graph.vertices = 5
    /\ Len(edge_properties) = 10

\* C25: for every input the decoder returns a graph or a typed error; it
\* does not abort through an arithmetic overflow or an index out of range.
C25_DecoderNeverPanics ==
    /\ ~panicked
    /\ IsSome(parse_call) => ParseResult.tag # "panic"

\* C26: every edge (u, v) of a graph the decoder returns has
\* u < v < vertex count.
C26_DecodedEdgesInRange ==
    (IsSome(parse_call) /\ ParseResult.tag = "Ok") =>
        LET g == Unwrap(ParseResult.value)
        IN  \A k \in 1..Len(g.edges) :
                /\ 0 <= g.edges[k][1]
                /\ g.edges[k][1] < g.edges[k][2]
                /\ g.edges[k][2] < g.vertices

-----------------------------------------------------------------------------
(* Claims about the SVG writer, checked under SpecWriter *)

\* the error a writer method returned, when the step is a call of a method
WriterTag == Unwrap(writer_result).tag

\* C27: a call outside the protocol returns a typed error and leaves the
\* writer (document text, header flag, finalised flag, nesting level) as it
\* was: add_item or finalise before write_header gives MissingHeader, a
\* second write_header gives AlreadyHasHeader, add_item or finalise after a
\* finalise gives AlreadyFinalised, write_to_file before finalise gives
\* NotFinalised.
C27_OutOfProtocolCallsRejected ==
    [][ /\ (last_op' \in {"add_item", "finalise"} /\ ~writer.has_header) =>
               (WriterTag' = "MissingHeader" /\ writer' = writer)
        /\ (last_op' = "write_header" /\ writer.has_header) =>
               (WriterTag' = "AlreadyHasHeader" /\ writer' = writer)
        /\ (last_op' \in {"add_item", "finalise"} /\ writer.finalised) =>
               (WriterTag' = "AlreadyFinalised" /\ writer' = writer)
        /\ (last_op' = "write_to_file" /\ ~writer.finalised) =>
               (WriterTag' = "NotFinalised" /\ writer' = writer)
      ]_vars

\* an item was offered to a finalised document and refused
C27_Witness ==
    /\ last_op = "add_item"
    /\ writer.finalised
    /\ IsSome(writer_result)
    /\ WriterTag = "AlreadyFinalised"
    /\ IsSome(Unwrap(writer_result).item)

\* the text element with the x, y and fill attributes only
BareTextElement(label) ==
    <<"<", "t", "e", "x", "t", " ", "x", "=", "\"">> \o FormatF32(label.position[1])
    \o <<"\"", " ", "y", "=", "\"">> \o FormatF32(label.position[2])
    \o <<"\"", " ", "f", "i", "l", "l", "=", "\"">> \o color_to_svg_string(label.color)
    \o <<"\"", ">">> \o label.content
    \o <<"<", "/", "t", "e", "x", "t", ">">>

\* C28: a label serialises to exactly <text x="X" y="Y" fill="#RRGGBB">,
\* its content and </text>: no other attribute, no character after it.
C28_LabelIsBareTextElement ==
    (IsSome(writer_result) /\ IsSome(Unwrap(writer_result).item)) =>
        LET label == Unwrap(Unwrap(writer_result).item)
        IN  label_to_svg_string(label) = BareTextElement(label)

-----------------------------------------------------------------------------
(* Claims about the highlight field, checked under SpecHighlight *)

\* the graphs of the lines of a text that decode, in the order of the lines
RECURSIVE ValidGraphs(_, _)
ValidGraphs(text_lines, checks) ==
    IF text_lines = <<>>
    THEN <<>>
    ELSE LET result == parse_graph6_string(Head(text_lines), checks)
         IN  (IF result.tag = "Ok" THEN <<Unwrap(result.value)>> ELSE <<>>)
             \o ValidGraphs(Tail(text_lines), checks)

-----------------------------------------------------------------------------
(* Claims about the start of a drag, checked under SpecDrag *)

DragSamples == BOOLEAN \X DragPointers \X DragFrameSteps

\* C30: drag_state goes from none to a drag of v only on a pointer sample on
\* which the classifier reports dragging and v is the vertex of lowest index
\* whose disc holds the pointer; that sample leaves the hovered vertex and
\* the hovered edge unset; and every step taken while a drag is in progress,
\* the one that ends it included, starts and ends with both unset.
C30_DragStartClearsHover ==
    [][ /\ (drag_state = None /\ IsSome(drag_state')) =>
               \E smp \in DragSamples :
                   LET v == Unwrap(drag_state').vertex
                   IN  /\ IsSample(smp)
                       /\ mouse_drag(click_start', smp[2], FrameTime(smp[3]))
                       /\ Unwrap(drag_state').mouse_position = smp[2]
                       /\ InDisc(v, smp[2])
                       /\ \A w \in 0..(v - 1) : ~InDisc(w, smp[2])
                       /\ hovered_vertex' = None
                       /\ hovered_edge' = None
        /\ IsSome(drag_state) =>
               /\ hovered_vertex = None /\ hovered_edge = None
               /\ hovered_vertex' = None /\ hovered_edge' = None
      ]_vars

\* vertex 1 was dragged onto vertex 0; then a drag began on the sample after
\* a press, by distance, at vertex 0's centre, which both discs hold: the
\* drag is of vertex 0
C30_Witness ==
    /\ IsSome(drag_state)
    /\ IsSome(click_start)
    /\ now - Unwrap(click_start).time = 40
    /\ Unwrap(drag_state).vertex = 0
    /\ Unwrap(drag_state).mouse_position = <<80, 50>>
    /\ InDisc(0, <<80, 50>>)
    /\ InDisc(1, <<80, 50>>)
    /\ dragged_vertex = Some(0)
    /\ hovered_vertex = None
    /\ hovered_edge = None

-----------------------------------------------------------------------------
(* Claims about the vertex collection, checked under SpecImport *)

\* C31: after any sequence of imports, resets and layout passes the
\* embedding holds one vertex state per vertex of the current graph, and
\* both endpoints of every edge state index a vertex state.
C31_OneVertexStatePerVertex ==
    /\ Len(vertex_properties) = graph.vertices
    /\ \A k \in 1..Len(edge_properties) :
          /\ edge_properties[k].vertices[1] < Len(vertex_properties)
          /\ edge_properties[k].vertices[2] < Len(vertex_properties)

-----------------------------------------------------------------------------
(* Claims about set_position and get_position, checked under SpecPosition *)

\* C32: set_position(i, p) with i at or beyond the length leaves a
\* collection of i + 1 entries: the old entries as they were, then entries
\* with the zero position and the Default draw state, and entry i at p with
\* the Default draw state; with i below the length only entry i's position
\* changes.  get_position(i) is the zero vector for every i at or beyond the
\* length.
C32_SetPositionGrowsCollection ==
    [][ \A i \in 0..(MaxVertexIndex + 1), p \in SetPositions :
            call_set_position(i, p) =>
                LET old == vertex_properties
                    new == vertex_properties'
                IN  /\ i >= Len(old) =>
                           /\ Len(new) = i + 1
                           /\ \A k \in 1..Len(old) : new[k] = old[k]
                           /\ \A k \in (Len(old) + 1)..i :
                                  /\ new[k].position = ZERO
                                  /\ new[k].draw_state = "Default"
                           /\ new[i + 1].position = p
                           /\ new[i + 1].draw_state = "Default"
                    /\ i < Len(old) =>
                           /\ Len(new) = Len(old)
                           /\ new[i + 1].position = p
                           /\ \A k \in 1..Len(old) :
                                  /\ k # i + 1 => new[k] = old[k]
                                  /\ new[k].draw_state = old[k].draw_state
                                  /\ new[k].radius = old[k].radius
                    /\ \A j \in Len(new)..(MaxVertexIndex + 2) :
                           get_position(new, j) = ZERO
                    /\ get_position(new, i) = p
      ]_vars

\* set_position(3, p) on the two-vertex embedding: entry 2 is a default
\* entry, entry 3 is at p, entries 0 and 1 are on their circle positions
C32_Witness ==
    /\ last_op = "set_position"
    /\ Len(vertex_properties) = 4
    /\ vertex_properties[1] = new_vertex_properties(Graph(2, <<>>))[1]
    /\ vertex_properties[2] = new_vertex_properties(Graph(2, <<>>))[2]
    /\ vertex_properties[3] = DefaultVertexProperties
    /\ vertex_properties[4].position = <<10, 20>>

-----------------------------------------------------------------------------
(* Claims about hover and clicks, checked under SpecPointer *)

\* the vertices and the edges whose draw state a step changes
CycledVertices ==
    {k \in 1..Len(vertex_properties) :
        vertex_properties'[k].draw_state # vertex_properties[k].draw_state}
CycledEdges ==
    {k \in 1..Len(edge_properties) :
        edge_properties'[k].draw_state # edge_properties[k].draw_state}

\* C33: before and after every pointer sample the hovered vertex and the
\* hovered edge are not both set, and a sample changes the draw state of at
\* most one element, a vertex or an edge.
C33_OneHoverOneCycle ==
    [][ /\ ~(IsSome(hovered_vertex) /\ IsSome(hovered_edge))
        /\ ~(IsSome(hovered_vertex') /\ IsSome(hovered_edge'))
        /\ Cardinality(CycledVertices) + Cardinality(CycledEdges) <= 1
      ]_vars

\* a click on vertex 0's centre, where two edges end: the vertex is hovered
\* and cycled, no edge is
C33_Witness ==
    /\ registered_click_this_frame
    /\ hovered_vertex = Some(0)
    /\ hovered_edge = None
    /\ IsSome(get_edge_at_position(vertex_properties, edge_properties, <<80, 50>>))
    /\ vertex_properties[1].draw_state = "Highlighted"
    /\ \A k \in 1..Len(edge_properties) : edge_properties[k].draw_state = "Default"

-----------------------------------------------------------------------------
(* Claims about the end of a drag and about gestures, checked under        *)
(* SpecPointer                                                             *)

\* C34 as stated: a drag in progress stays in progress on every sample with
\* the pointer down; it ends only on a sample with the pointer up.
C34_DragHeldWhilePointerDown ==
    [][\A smp \in Samples :
          (IsSample(smp) /\ IsSome(drag_state) /\ smp[1]) => IsSome(drag_state')]_vars

\* C34, amended: a drag in progress ends on a sample iff the pointer is up,
\* or the pointer is down no more than 125 ms after the press and no more
\* than 5 units from the press position; so it stays in progress on every
\* sample with the pointer down that comes more than 125 ms after the press.
C34_DragEndsWhenNotReported ==
    [][\A smp \in Samples :
          (IsSample(smp) /\ IsSome(drag_state)) =>
              /\ IsSome(click_start)
              /\ drag_state' = None <=>
                    \/ ~smp[1]
                    \/ /\ Elapsed(smp[3]) <= 125
                       /\ DistanceSq(Unwrap(click_start).position, smp[2]) <= 5 * 5
              /\ (smp[1] /\ Elapsed(smp[3]) > 125) => IsSome(drag_state')]_vars

\* a press on vertex 0's centre, a drag begun 10 units below it, and the
\* pointer back on the press position 124 ms after the press, still down:
\* the drag has ended, and no hover was computed on that sample
C34_Witness ==
    /\ drag_state = None
    /\ dragged_vertex = None
    /\ IsSome(click_start)
    /\ Unwrap(click_start).position = <<80, 50>>
    /\ now - Unwrap(click_start).time = 124
    /\ hovered_vertex = None
    /\ hovered_edge = None

\* C35: a gesture on which dragging was reported ends without a click.  A
\* drag is in progress only when dragging was reported on an earlier sample
\* of the same press, so: a sample taken while a drag is in progress reports
\* no click, and changes no draw state.
C35_NoClickAfterDrag ==
    [][\A smp \in Samples :
          (IsSample(smp) /\ IsSome(drag_state)) =>
              /\ ~registered_click_this_frame'
              /\ VertexDrawStates(vertex_properties') = VertexDrawStates(vertex_properties)
              /\ EdgeDrawStates(edge_properties') = EdgeDrawStates(edge_properties)]_vars

=============================================================================
